---- MODULE Spec2Model ----
(***************************************************************************)
(* Model of nanonis_control/nanonis_tcp.py: the binary codec               *)
(* (to_binary, from_binary, construct_header, construct_command,           *)
(* parse_response), the transport (send / transmit under one lock, close   *)
(* and the exit handler), command wrappers, and the SI parser convert.     *)
(*                                                                         *)
(* Representation of Python values: a record [t, v] where t is the Python  *)
(* type and v the value:                                                   *)
(*   "int"    an integer below 2^31 in magnitude;                          *)
(*   "bigint" an int in 2^31 .. 2^32-1 (a uint32 value), kept as its four  *)
(*            base-256 digits;                                             *)
(*   "float"  a binary64, kept as its fields <<sign, biased exponent,      *)
(*            high 23 fraction bits, low 29 fraction bits>>;               *)
(*   "str"    a sequence of Unicode code points;                           *)
(*   "list"   a sequence of values.                                        *)
(* Bytes objects are sequences of 0..255.  A type tag such as '1DArr_int'  *)
(* is the sequence of its '_'-separated parts, <<"1DArr", "int">>.         *)
(* Every operator that can raise returns a record whose err field names    *)
(* the exception ("none" when it returns normally).                        *)
(***************************************************************************)
EXTENDS Integers, Sequences, FiniteSets, TLC

VARIABLES
    encPhase,      \* encoder run: "build" while the call is written, "done" after construct_command
    command_name,  \* encoder run: first argument of construct_command (str, code points)
    vargs,         \* encoder run: the remaining positional arguments
    message,       \* encoder run: outcome of construct_command
    decPhase,      \* decoder run: "build" while the response arrives, "done" after parse_response
    response,      \* decoder run: the envelope send() returned (command_name, body_size, body)
    expected,      \* decoder run: the type tags passed to parse_response
    parsedResult,  \* decoder run: outcome of parse_response
    pc,            \* transport: where each thread is in send()
    lock,          \* transport: self.lock, the thread that acquired it or Unlocked
    call,          \* transport: the arguments of each thread's current send() call
    received,      \* transport: what self.socket.recv(1024) returned to each thread
    result,        \* transport: how each thread's last send() call ended
    nCalls,        \* transport: send() calls made so far
    requests,      \* transport: requests written to the socket, not yet answered by the peer
    stream,        \* transport: bytes the peer has written, not yet returned by a recv
    sock,          \* transport: self.socket, "open" since construction or "closed"
    releases,      \* transport: how many times the socket's descriptor has been released
    closeCalls,    \* transport: calls of close() so far, the exit handler's included
    process,       \* transport: "running", or "exited" after normal termination
    sendalls,      \* transport: sendall calls of each thread's current send() call
    recvs,         \* transport: recv calls of each thread's current send() call
    wrapPhase,     \* wrapper run: "build" while the device answers, "done" after the wrapper
    answer,        \* wrapper run: the envelope send() returned to the wrapper
    device,        \* wrapper run: the error status and description the device answered with
    wrapper,       \* wrapper run: the command wrapper that was called
    outcome,       \* wrapper run: what the wrapper returned or raised
    convPhase,     \* convert run: "build" while the text is written, "done" after convert
    convInput,     \* convert run: the argument of convert (str, code points)
    converted,     \* convert run: what convert returned or raised
    rtPhase,       \* round trip: "build" while the value is chosen, "done" after to_binary and from_binary
    rtTag,         \* round trip: the type tag
    rtValue,       \* round trip: the value given to to_binary
    roundTrip,     \* round trip: outcome of to_binary, and of from_binary on its bytes
    setPhase,      \* setter run: "config" while the limits are assigned, "done" after the setter
    limits,        \* setter run: the limit attributes of the instance
    setCall,       \* setter run: the setter that was called and its arguments
    setOutcome     \* setter run: what the setter raised, and the messages it wrote to the socket

encVars == <<encPhase, command_name, vargs, message>>
decVars == <<decPhase, response, expected, parsedResult>>
netVars == <<pc, lock, call, received, result, nCalls, requests, stream,
             sock, releases, closeCalls, process, sendalls, recvs>>
wrapVars == <<wrapPhase, answer, device, wrapper, outcome>>
convVars == <<convPhase, convInput, converted>>
rtVars == <<rtPhase, rtTag, rtValue, roundTrip>>
setVars == <<setPhase, limits, setCall, setOutcome>>
vars == <<encVars, decVars, netVars, wrapVars, convVars, rtVars, setVars>>
\* the variables that the actions of one run leave alone
notEnc == <<decVars, netVars, wrapVars, convVars, rtVars, setVars>>
notDec == <<encVars, netVars, wrapVars, convVars, rtVars, setVars>>
notNet == <<encVars, decVars, wrapVars, convVars, rtVars, setVars>>
notWrap == <<encVars, decVars, netVars, convVars, rtVars, setVars>>
notConv == <<encVars, decVars, netVars, wrapVars, rtVars, setVars>>
notRt == <<encVars, decVars, netVars, wrapVars, convVars, setVars>>
notSet == <<encVars, decVars, netVars, wrapVars, convVars, rtVars>>

\* ---------------------------------------------------------------- bounds
MaxPairs == 3      \* (tag, value) pairs in one construct_command call
MaxChunks == 4     \* 4- or 5-byte pieces in the body of one response given to parse_response
MaxTags == 2       \* expected type tags in one parse_response call
NumThreads == 2    \* threads calling send() on the one instance
MaxCalls == 3      \* send() calls in one run
MaxCloses == 2     \* explicit close() calls in one run
MaxFairCalls == 2  \* send() calls in one run checked for liveness
MaxFairCloses == 1 \* explicit close() calls in one run checked for liveness
MaxFields == 5     \* float32 fields in the body the device answers a wrapper with
MaxText == 4       \* characters in the text given to convert
MaxAssigned == 1   \* limit attributes the caller has changed before the setter is called

\* ------------------------------------------------------- Python values
RECURSIVE Log2(_)
Log2(m) == IF m < 2 THEN 0 ELSE 1 + Log2(m \div 2)

PyInt(n) == [t |-> "int", v |-> n]
PyStr(cps) == [t |-> "str", v |-> cps]
PyList(xs) == [t |-> "list", v |-> xs]

\* float(n) for an int n, 0 <= n < 2^31: the binary64 fields of n
FloatFields(s, n) ==
    IF n = 0 THEN <<s, 0, 0, 0>>
    ELSE LET k == Log2(n)
             r == n - (2 ^ k)
         IN  IF k <= 23 THEN <<s, 1023 + k, r * (2 ^ (23 - k)), 0>>
             ELSE <<s, 1023 + k, r \div (2 ^ (k - 23)), (r % (2 ^ (k - 23))) * (2 ^ (52 - k))>>

\* the float (-1)^s * m * 2^e, for 0 <= m < 2^31
PyFloat(s, m, e) ==
    LET f == FloatFields(s, m)
    IN  [t |-> "float", v |-> IF m = 0 THEN f ELSE <<f[1], f[2] + e, f[3], f[4]>>]

Ok(bs) == [err |-> "none", bytes |-> bs]
Raise(kind) == [err |-> kind, bytes |-> <<>>]

Zeros(n) == [i \in 1..n |-> 0]

\* nanonis_tcp.py:14 datatype_dict (struct format per type tag)
datatype_dict == [int |-> ">i", uint16 |-> ">H", uint32 |-> ">I",
                  float32 |-> ">f", float64 |-> ">d"]

\* nanonis_tcp.py:21 datasize_dict (width in bytes per type tag)
datasize_dict == [int |-> 4, uint16 |-> 2, uint32 |-> 4, float32 |-> 4, float64 |-> 8]

\* dict[key] for a key that is a tag: only a one-part tag can be a key
HasKey(dict, tag) == Len(tag) = 1 /\ tag[1] \in DOMAIN dict

\* ------------------------------------------------------------- UTF-8
\* bytes(s, 'utf-8') for one code point that is no surrogate
Utf8Char(cp) ==
    IF cp < 128 THEN <<cp>>
    ELSE IF cp < 2048 THEN <<192 + (cp \div 64), 128 + (cp % 64)>>
    ELSE IF cp < 65536 THEN <<224 + (cp \div 4096), 128 + ((cp \div 64) % 64), 128 + (cp % 64)>>
    ELSE <<240 + (cp \div 262144), 128 + ((cp \div 4096) % 64),
           128 + ((cp \div 64) % 64), 128 + (cp % 64)>>

IsSurrogate(cp) == cp >= 55296 /\ cp <= 57343

\* bytes(s, 'utf-8')
RECURSIVE Utf8Encode(_)
Utf8Encode(cps) == IF cps = <<>> THEN <<>> ELSE Utf8Char(Head(cps)) \o Utf8Encode(Tail(cps))

\* ------------------------------------------------------- struct.pack
\* little-endian bytes of 0 <= v < 256^w
LittleEndian(v, w) == [i \in 1..w |-> (v \div (256 ^ (i - 1))) % 256]

\* big-endian bytes of 0 <= v < 256^w
BigEndian(v, w) == [i \in 1..w |-> (v \div (256 ^ (w - i))) % 256]

\* two's complement big-endian bytes of a signed 32-bit value
PackInt32(v) ==
    IF v >= 0 THEN BigEndian(v, 4)
    ELSE LET u == (v + 2147483647) + 1      \* v + 2^31, low 31 bits
             b == BigEndian(u, 4)
         IN  <<b[1] + 128, b[2], b[3], b[4]>>

\* the 8 bytes of a binary64 given by its fields
PackFloat64(f) ==
    LET s == f[1]
        E == f[2]
        Fhi == f[3]
        Flo == f[4]
    IN  <<(s * 128) + (E \div 16), ((E % 16) * 16) + (Fhi \div 524288),
          (Fhi \div 2048) % 256, (Fhi \div 8) % 256,
          ((Fhi % 8) * 32) + (Flo \div 16777216),
          (Flo \div 65536) % 256, (Flo \div 256) % 256, Flo % 256>>

\* the 4 bytes of a binary32 given by sign, biased exponent and 23 fraction bits
Float32Bytes(s, E, F) ==
    <<(s * 128) + (E \div 2), ((E % 2) * 128) + (F \div 65536), (F \div 256) % 256, F % 256>>

\* q rounded to nearest, ties to even, where the exact value is q + r/d + (a little more if sticky)
RoundNearestEven(q, r, d, sticky) ==
    IF 2 * r > d \/ (2 * r = d /\ sticky) \/ (2 * r = d /\ ~sticky /\ q % 2 = 1) THEN q + 1 ELSE q

\* struct.pack('>f', x) for a binary64 x: the conversion to binary32 (round to nearest even)
PackFloat32(f) ==
    LET s == f[1]
        E == f[2]
        Fhi == f[3]
        Flo == f[4]
        e == E - 1023
    IN  IF E = 2047 THEN
            Ok(Float32Bytes(s, 255, IF Fhi = 0 /\ Flo # 0 THEN 4194304 ELSE Fhi))
        ELSE IF E = 0 THEN Ok(Float32Bytes(s, 0, 0))
        ELSE IF e >= -126 THEN
            LET M == RoundNearestEven(8388608 + Fhi, Flo, 536870912, FALSE)   \* 24-bit significand
                e2 == IF M = 16777216 THEN e + 1 ELSE e
                F2 == IF M = 16777216 THEN 0 ELSE M - 8388608
            IN  IF e2 > 127 THEN Raise("OverflowError") ELSE Ok(Float32Bytes(s, e2 + 127, F2))
        ELSE
            LET shift == -126 - e
            IN  IF shift > 24 THEN Ok(Float32Bytes(s, 0, 0))
                ELSE LET d == 2 ^ shift
                         M == RoundNearestEven((8388608 + Fhi) \div d, (8388608 + Fhi) % d, d, Flo # 0)
                     IN  Ok(Float32Bytes(s, M \div 8388608, M % 8388608))

\* float(x) as struct.pack applies it to the argument of an 'f' or 'd' format
AsFloat(x) ==
    IF x.t = "float" THEN x.v
    ELSE FloatFields(IF x.v < 0 THEN 1 ELSE 0, IF x.v < 0 THEN 0 - x.v ELSE x.v)

\* struct.pack(fmt, x)
StructPack(fmt, x) ==
    IF fmt = ">i" THEN
        IF x.t = "int" THEN Ok(PackInt32(x.v)) ELSE Raise("struct.error")
    ELSE IF fmt = ">H" THEN
        IF x.t = "int" /\ x.v >= 0 /\ x.v <= 65535 THEN Ok(BigEndian(x.v, 2))
        ELSE Raise("struct.error")
    ELSE IF fmt = ">I" THEN
        IF x.t = "int" /\ x.v >= 0 THEN Ok(BigEndian(x.v, 4))
        ELSE IF x.t = "bigint" THEN Ok(x.v)
        ELSE Raise("struct.error")
    ELSE IF x.t \notin {"float", "int"} THEN Raise("struct.error")
    ELSE IF fmt = ">f" THEN PackFloat32(AsFloat(x))
    ELSE Ok(PackFloat64(AsFloat(x)))

\* nanonis_tcp.py:68 to_binary(datatype, input_data); datatype is a tag
to_binary(datatype, input_data) ==
    IF datatype = <<"string">> THEN
        IF input_data.t # "str" THEN Raise("TypeError")
        ELSE IF \E i \in 1..Len(input_data.v) : IsSurrogate(input_data.v[i]) THEN Raise("UnicodeEncodeError")
        ELSE Ok(Utf8Encode(input_data.v))
    ELSE IF HasKey(datatype_dict, datatype) THEN StructPack(datatype_dict[datatype[1]], input_data)
    ELSE Raise("UnknownType")

\* ----------------------------------------------------- struct.unpack
PyNone == [t |-> "None", v |-> 0]
Val(x) == [err |-> "none", val |-> x]
RaiseVal(kind) == [err |-> kind, val |-> PyNone]

\* value of the big-endian digits b, below 2^31
FromBigEndian(b) ==
    IF Len(b) = 2 THEN (b[1] * 256) + b[2]
    ELSE (b[1] * 16777216) + (b[2] * 65536) + (b[3] * 256) + b[4]

\* struct.unpack('>i', b)[0]: two's complement
UnpackInt32(b) ==
    IF b[1] < 128 THEN PyInt(FromBigEndian(b))
    ELSE PyInt((FromBigEndian(<<b[1] - 128, b[2], b[3], b[4]>>) - 2147483647) - 1)

\* struct.unpack('>I', b)[0]
UnpackUint32(b) ==
    IF b[1] < 128 THEN PyInt(FromBigEndian(b)) ELSE [t |-> "bigint", v |-> b]

\* struct.unpack('>f', b)[0]: the binary32 widened to binary64
UnpackFloat32(b) ==
    LET s == b[1] \div 128
        E == ((b[1] % 128) * 2) + (b[2] \div 128)
        F == ((b[2] % 128) * 65536) + (b[3] * 256) + b[4]
    IN  IF E = 255 THEN [t |-> "float", v |-> <<s, 2047, F, 0>>]
        ELSE IF E = 0 THEN
            IF F = 0 THEN [t |-> "float", v |-> <<s, 0, 0, 0>>]
            ELSE LET k == Log2(F)       \* subnormal binary32: F * 2^-149
                 IN  [t |-> "float", v |-> <<s, (1023 + k) - 149, (F - (2 ^ k)) * (2 ^ (23 - k)), 0>>]
        ELSE [t |-> "float", v |-> <<s, E + 896, F, 0>>]

\* struct.unpack('>d', b)[0]
UnpackFloat64(b) ==
    [t |-> "float",
     v |-> <<b[1] \div 128,
             ((b[1] % 128) * 16) + (b[2] \div 16),
             ((b[2] % 16) * 524288) + (b[3] * 2048) + (b[4] * 8) + (b[5] \div 32),
             ((b[5] % 32) * 16777216) + (b[6] * 65536) + (b[7] * 256) + b[8]>>]

\* struct.calcsize(fmt)
StructSize(fmt) == IF fmt = ">H" THEN 2 ELSE IF fmt = ">d" THEN 8 ELSE 4

\* struct.unpack(fmt, b)[0]
StructUnpack(fmt, b) ==
    IF Len(b) # StructSize(fmt) THEN RaiseVal("struct.error")
    ELSE IF fmt = ">i" THEN Val(UnpackInt32(b))
    ELSE IF fmt = ">H" THEN Val(PyInt(FromBigEndian(b)))
    ELSE IF fmt = ">I" THEN Val(UnpackUint32(b))
    ELSE IF fmt = ">f" THEN Val(UnpackFloat32(b))
    ELSE Val(UnpackFloat64(b))

\* number of continuation bytes after lead byte b0 (-1: b0 cannot start a character)
Utf8Follow(b0) ==
    IF b0 < 128 THEN 0
    ELSE IF b0 >= 194 /\ b0 <= 223 THEN 1
    ELSE IF b0 >= 224 /\ b0 <= 239 THEN 2
    ELSE IF b0 >= 240 /\ b0 <= 244 THEN 3
    ELSE -1

IsCont(x) == x >= 128 /\ x <= 191

\* the number of bytes below 128 that b starts with
AsciiRun(b) ==
    IF \A i \in 1..Len(b) : b[i] < 128 THEN Len(b)
    ELSE (CHOOSE i \in 1..Len(b) : b[i] >= 128 /\ \A j \in 1..(i - 1) : b[j] < 128) - 1

\* the code point of the character of n + 1 bytes that b starts with
Utf8CodePoint(b, n) ==
    IF n = 1 THEN ((b[1] - 192) * 64) + (b[2] - 128)
    ELSE IF n = 2 THEN ((b[1] - 224) * 4096) + ((b[2] - 128) * 64) + (b[3] - 128)
    ELSE ((b[1] - 240) * 262144) + ((b[2] - 128) * 4096) + ((b[3] - 128) * 64) + (b[4] - 128)

\* the characters head, then the decoded rest
Utf8Join(head, rest) == IF rest.err # "none" THEN rest ELSE Val(PyStr(head \o rest.val.v))

\* b.decode('utf-8'), strict: the code points, or UnicodeDecodeError
RECURSIVE Utf8Decode(_)
\* b starts with a byte of 128 or more that announces n continuation bytes
Utf8DecodeWide(b, n) ==
    IF n < 0 \/ Len(b) < n + 1 THEN RaiseVal("UnicodeDecodeError")
    ELSE IF \E i \in 2..(n + 1) : ~IsCont(b[i]) THEN RaiseVal("UnicodeDecodeError")
    ELSE IF (b[1] = 224 /\ b[2] < 160) \/ (b[1] = 237 /\ b[2] > 159)
            \/ (b[1] = 240 /\ b[2] < 144) \/ (b[1] = 244 /\ b[2] > 143)
         THEN RaiseVal("UnicodeDecodeError")
    ELSE Utf8Join(<<Utf8CodePoint(b, n)>>, Utf8Decode(SubSeq(b, n + 2, Len(b))))

Utf8Decode(b) ==
    IF AsciiRun(b) = Len(b) THEN Val(PyStr(b))
    ELSE IF AsciiRun(b) > 0
         THEN Utf8Join(SubSeq(b, 1, AsciiRun(b)), Utf8Decode(SubSeq(b, AsciiRun(b) + 1, Len(b))))
    ELSE Utf8DecodeWide(b, Utf8Follow(b[1]))

\* nanonis_tcp.py:84 from_binary(datatype, input_data)
from_binary(datatype, input_data) ==
    IF datatype = <<"string">> THEN Utf8Decode(input_data)
    ELSE IF HasKey(datatype_dict, datatype) THEN StructUnpack(datatype_dict[datatype[1]], input_data)
    ELSE RaiseVal("UnknownType")

\* construct_header with the name field padded to 31 bytes instead of 32
construct_header_pad31(cmd_name, body_size, send_response_back) ==
    LET cmd_name_bytes == to_binary(<<"string">>, cmd_name)
        padded == cmd_name_bytes.bytes \o Zeros(31 - Len(cmd_name_bytes.bytes))
        size_bytes == to_binary(<<"int">>, body_size)
    IN  IF cmd_name_bytes.err # "none" THEN cmd_name_bytes
        ELSE IF size_bytes.err # "none" THEN size_bytes
        ELSE Ok(padded \o size_bytes.bytes \o (IF send_response_back THEN <<0, 1>> ELSE <<0, 0>>) \o <<0, 0>>)

\* nanonis_tcp.py:100 construct_header(command_name, body_size, send_response_back);
\* body_size is a Python value (an int, or a float when a float length was added to it)
construct_header(cmd_name, body_size, send_response_back) ==
    LET cmd_name_bytes == to_binary(<<"string">>, cmd_name)
        len_cmd_name_bytes == Len(cmd_name_bytes.bytes)
        padded == cmd_name_bytes.bytes \o Zeros(32 - len_cmd_name_bytes)
        response_flag == IF send_response_back THEN <<0, 1>> ELSE <<0, 0>>
        size_bytes == to_binary(<<"int">>, body_size)
    IN  IF cmd_name_bytes.err # "none" THEN cmd_name_bytes
        ELSE IF size_bytes.err # "none" THEN size_bytes
        ELSE Ok(padded \o size_bytes.bytes \o response_flag \o <<0, 0>>)

\* ---------------------------------------------- construct_command helpers
\* seq[i] with Python's 0-based index, negative indices counting from the end
PyIndex(seq, i) == IF i < 0 THEN seq[Len(seq) + i + 1] ELSE seq[i + 1]

\* len(x) is defined
HasLen(x) == x.t \in {"str", "list"}

\* len(x)
PyLen(x) == Len(x.v)

\* the items of "for item in x" (a str iterates over its one-character strings)
PyItems(x) == IF x.t = "str" THEN [i \in 1..Len(x.v) |-> PyStr(<<x.v[i]>>)] ELSE x.v

\* x == n for a Python value x and an int n >= 0
PyEqInt(x, n) ==
    IF x.t = "int" THEN x.v = n
    ELSE IF x.t = "float" THEN
        IF n = 0 THEN x.v[2] = 0 /\ x.v[3] = 0 /\ x.v[4] = 0 ELSE x.v = FloatFields(0, n)
    ELSE FALSE

\* sum of len(string) + 4 over the items (nanonis_tcp.py:138-139)
RECURSIVE StringArraySize(_)
StringArraySize(items) ==
    IF items = <<>> THEN 0 ELSE PyLen(Head(items)) + 4 + StringArraySize(Tail(items))

\* the loops of nanonis_tcp.py:158-163 over the items of an array value
RECURSIVE EncodeItems(_, _)
EncodeItems(datatype, items) ==
    IF items = <<>> THEN Ok(<<>>)
    ELSE LET x == Head(items)
             lenb == IF datatype = <<"string">>
                     THEN (IF HasLen(x) THEN to_binary(<<"int">>, PyInt(PyLen(x))) ELSE Raise("TypeError"))
                     ELSE Ok(<<>>)
             one == to_binary(datatype, x)
             rest == EncodeItems(datatype, Tail(items))
         IN  IF lenb.err # "none" THEN lenb
             ELSE IF one.err # "none" THEN one
             ELSE IF rest.err # "none" THEN rest
             ELSE Ok(lenb.bytes \o one.bytes \o rest.bytes)

\* local variables of construct_command before the loop (nanonis_tcp.py:124-126);
\* arrLen and arrayDims are unbound until first assigned
EncStart == [err |-> "none", body_size |-> 0, sizeIsFloat |-> FALSE, body |-> <<>>,
             datatype |-> <<"">>, arrayDims |-> 0, arrLen |-> 0, arrLenBound |-> FALSE]

EncFail(st, kind) == [st EXCEPT !.err = kind]

\* nanonis_tcp.py:128-152, one iteration with idx % 2 == 0 (arg is a type tag)
EncTag(st, va, idx) ==
    LET arg == va[idx + 1]
        prev == PyIndex(va, idx - 1)
        nxt == va[idx + 2]
    IN  IF arg[1] = "1DArr" THEN
            IF Len(arg) < 2 THEN EncFail(st, "IndexError")
            ELSE LET dt == <<arg[2]>>
                     st1 == IF prev.t = "int"
                            THEN [st EXCEPT !.arrayDims = 1, !.datatype = dt,
                                            !.arrLen = prev.v, !.arrLenBound = TRUE]
                            ELSE [st EXCEPT !.arrayDims = 1, !.datatype = dt]
                 IN  IF prev.t = "int" /\ ~HasLen(nxt) THEN EncFail(st1, "TypeError")
                     ELSE IF prev.t = "int" /\ st1.arrLen # PyLen(nxt) THEN EncFail(st1, "LengthMismatch")
                     ELSE IF dt = <<"string">> THEN
                         IF ~HasLen(nxt) \/ (\E i \in 1..Len(PyItems(nxt)) : ~HasLen(PyItems(nxt)[i]))
                         THEN EncFail(st1, "TypeError")
                         ELSE [st1 EXCEPT !.body_size = @ + StringArraySize(PyItems(nxt))]
                     ELSE IF ~HasKey(datasize_dict, dt) THEN EncFail(st1, "KeyError")
                     ELSE IF ~st1.arrLenBound THEN EncFail(st1, "UnboundLocalError")
                     ELSE [st1 EXCEPT !.body_size = @ + (datasize_dict[dt[1]] * st1.arrLen)]
        ELSE
            LET st1 == [st EXCEPT !.arrayDims = 0, !.datatype = arg]
            IN  IF arg = <<"string">> THEN
                    IF ~HasLen(nxt) THEN EncFail(st1, "TypeError")
                    ELSE IF PyEqInt(prev, PyLen(nxt))
                         THEN [st1 EXCEPT !.body_size = @ + PyLen(nxt),
                                          !.sizeIsFloat = @ \/ prev.t = "float"]
                         ELSE EncFail(st1, "LengthMismatch")
                ELSE IF ~HasKey(datasize_dict, arg) THEN EncFail(st1, "KeyError")
                ELSE [st1 EXCEPT !.body_size = @ + datasize_dict[arg[1]]]

\* nanonis_tcp.py:153-163, one iteration with idx % 2 == 1 (arg is the value)
EncValue(st, va, idx) ==
    LET arg == va[idx + 1]
        enc == IF st.arrayDims = 0 THEN to_binary(st.datatype, arg)
               ELSE IF ~HasLen(arg) THEN Raise("TypeError")
               ELSE EncodeItems(st.datatype, PyItems(arg))
    IN  IF enc.err # "none" THEN EncFail(st, enc.err)
        ELSE [st EXCEPT !.body = @ \o enc.bytes]

\* nanonis_tcp.py:127 the loop "for idx, arg in enumerate(vargs)", from index idx on
RECURSIVE EncLoop(_, _, _)
EncLoop(st, va, idx) ==
    IF st.err # "none" \/ idx >= Len(va) THEN st
    ELSE EncLoop(IF idx % 2 = 0 THEN EncTag(st, va, idx) ELSE EncValue(st, va, idx), va, idx + 1)

\* nanonis_tcp.py:100, 165 construct_command calls construct_header(command_name, body_size):
\* send_response_back keeps its default, True
send_response_back_default == TRUE

\* nanonis_tcp.py:116 construct_command(command_name, *vargs)
construct_command(cmd_name, va) ==
    IF Len(va) % 2 # 0 THEN Raise("Unbalanced")
    ELSE LET st == EncLoop(EncStart, va, 0)
             header == construct_header(cmd_name,
                           [t |-> IF st.sizeIsFloat THEN "float" ELSE "int", v |-> st.body_size],
                           send_response_back_default)
         IN  IF st.err # "none" THEN Raise(st.err)
             ELSE IF header.err # "none" THEN header
             ELSE Ok(header.bytes \o st.body)

\* ---------------------------------------------------- parse_response
\* b[lo:hi] with Python's slice rules (negative bounds count from the end, both are clamped)
PySlice(b, lo, hi) ==
    LET n == Len(b)
        Clamp(i) == IF i < 0 THEN (IF i + n < 0 THEN 0 ELSE i + n) ELSE (IF i > n THEN n ELSE i)
    IN  IF Clamp(lo) >= Clamp(hi) THEN <<>> ELSE SubSeq(b, Clamp(lo) + 1, Clamp(hi))

\* type(x) == int
IsPyInt(x) == x.t \in {"int", "bigint"}

\* parsed[str(k)] = x
DictPut(d, k, x) == [i \in (DOMAIN d) \cup {k} |-> IF i = k THEN x ELSE d[i]]

\* nanonis_tcp.py:296-300: the search for the array length among the parsed fields, from _i = i on
RECURSIVE FindArrLen(_, _, _)
FindArrLen(parsed, idx, i) ==
    IF i >= Cardinality(DOMAIN parsed) THEN [err |-> "none", found |-> FALSE, val |-> PyNone]
    ELSE IF (idx - 1) - i \notin DOMAIN parsed THEN [err |-> "KeyError", found |-> FALSE, val |-> PyNone]
    ELSE IF IsPyInt(parsed[(idx - 1) - i]) THEN [err |-> "none", found |-> TRUE, val |-> parsed[(idx - 1) - i]]
    ELSE FindArrLen(parsed, idx, i + 1)

\* nanonis_tcp.py:306-310 and 316-318: the loop reading n array elements from bytecursor c on
RECURSIVE ReadItems(_, _, _, _, _)
\* one string element: its length prefix bytesize has been read at c, the text follows
ReadString(body, n, c, items, bytesize) ==
    IF bytesize.err # "none" THEN [err |-> bytesize.err, bytecursor |-> c, items |-> items]
    ELSE LET item == from_binary(<<"string">>, PySlice(body, c + 4, (c + 4) + bytesize.val.v))
         IN  IF item.err # "none" THEN [err |-> item.err, bytecursor |-> c + 4, items |-> items]
             ELSE ReadItems(body, <<"string">>, n - 1, (c + 4) + bytesize.val.v, Append(items, item.val))

\* one fixed-size element item has been read at c
ReadFixed(body, dt, n, c, items, item) ==
    IF item.err # "none" THEN [err |-> item.err, bytecursor |-> c, items |-> items]
    ELSE ReadItems(body, dt, n - 1, c + datasize_dict[dt[1]], Append(items, item.val))

ReadItems(body, dt, n, c, items) ==
    IF n <= 0 THEN [err |-> "none", bytecursor |-> c, items |-> items]
    ELSE IF dt = <<"string">> THEN
        ReadString(body, n, c, items, from_binary(<<"int">>, PySlice(body, c, c + 4)))
    ELSE ReadFixed(body, dt, n, c, items, from_binary(dt, PySlice(body, c, c + datasize_dict[dt[1]])))

\* local variables of parse_response before the loop (nanonis_tcp.py:291-292);
\* arrLen is unbound until the search finds a length
DecStart == [err |-> "none", bytecursor |-> 0, parsed |-> <<>>, arrLen |-> PyNone, arrLenBound |-> FALSE]

DecFail(st, kind) == [st EXCEPT !.err = kind]

\* nanonis_tcp.py:304-319: the array has been read (r), it is stored under str(idx)
DecStore(st1, idx, r) ==
    IF r.err # "none" THEN [st1 EXCEPT !.err = r.err, !.bytecursor = r.bytecursor]
    ELSE [st1 EXCEPT !.bytecursor = r.bytecursor,
                     !.parsed = DictPut(@, idx, [t |-> "ndarray", v |-> r.items])]

\* nanonis_tcp.py:303-319: after the length search left the locals st1; np.zeros(n) raises
\* MemoryError when n elements exceed allocLimit, the memory the process can reserve
DecRead(st1, body, arg, idx, allocLimit) ==
    IF Len(arg) < 2 THEN DecFail(st1, "IndexError")
    ELSE IF <<arg[2]>> # <<"string">> /\ ~HasKey(datasize_dict, <<arg[2]>>) THEN DecFail(st1, "KeyError")
    ELSE IF ~st1.arrLenBound THEN DecFail(st1, "UnboundLocalError")
    ELSE IF st1.arrLen.t = "bigint" THEN DecFail(st1, "MemoryError")
    ELSE IF st1.arrLen.v < 0 THEN DecFail(st1, "ValueError")
    ELSE IF st1.arrLen.v > allocLimit THEN DecFail(st1, "MemoryError")
    ELSE DecStore(st1, idx, ReadItems(body, <<arg[2]>>, st1.arrLen.v, st1.bytecursor, <<>>))

\* nanonis_tcp.py:296-302: the outcome look of the length search sets arrLen when it found one
DecLook(st, body, arg, idx, allocLimit, look) ==
    IF look.err # "none" THEN DecFail(st, look.err)
    ELSE DecRead(IF look.found THEN [st EXCEPT !.arrLen = look.val, !.arrLenBound = TRUE] ELSE st,
                 body, arg, idx, allocLimit)

\* nanonis_tcp.py:294-319, one iteration of the loop for an array tag
DecArray(st, body, arg, idx, allocLimit) ==
    DecLook(st, body, arg, idx, allocLimit, FindArrLen(st.parsed, idx, 0))

\* nanonis_tcp.py:324-326: the scalar x has been read, it is stored under str(idx)
DecPut(st, idx, bytesize, x) ==
    IF x.err # "none" THEN DecFail(st, x.err)
    ELSE [st EXCEPT !.parsed = DictPut(@, idx, x.val), !.bytecursor = @ + bytesize]

\* nanonis_tcp.py:320-326, one iteration of the loop for a scalar tag
DecScalar(st, body, arg, idx) ==
    IF arg = <<"string">> THEN
        \* bytesize = parsed[str(idx-1)]: nothing is read and nothing is stored
        IF idx - 1 \in DOMAIN st.parsed THEN st ELSE DecFail(st, "KeyError")
    ELSE IF ~HasKey(datasize_dict, arg) THEN DecFail(st, "KeyError")
    ELSE DecPut(st, idx, datasize_dict[arg[1]],
                from_binary(arg, PySlice(body, st.bytecursor, st.bytecursor + datasize_dict[arg[1]])))

\* nanonis_tcp.py:293 the loop "for idx, arg in enumerate(vargs)", from index idx on
RECURSIVE DecLoop(_, _, _, _, _)
DecLoop(st, body, tags, idx, allocLimit) ==
    IF st.err # "none" \/ idx >= Len(tags) THEN st
    ELSE DecLoop(IF tags[idx + 1][1] = "1DArr" THEN DecArray(st, body, tags[idx + 1], idx, allocLimit)
                 ELSE DecScalar(st, body, tags[idx + 1], idx),
                 body, tags, idx + 1, allocLimit)

\* the outcome of parse_response: err, and the locals when it returned or raised
DecOutcome(kind, st, status, size, hasDesc, desc, cursor) ==
    [err |-> kind, parsed |-> st.parsed, fieldsEnd |-> st.bytecursor,
     status |-> status, size |-> size, hasDescription |-> hasDesc, description |-> desc,
     bytecursor |-> cursor]

\* nanonis_tcp.py:331-338: the description desc has been read at c + 8, then the cursor check
DecDescription(resp, st, c, status, size, desc) ==
    IF desc.err # "none" THEN DecOutcome(desc.err, st, status.val, size.val, FALSE, PyNone, c + 8)
    ELSE DecOutcome(IF (c + 8) + size.val.v # resp.body_size.v THEN "BodySizeMismatch" ELSE "none",
                    st, status.val, size.val, TRUE, desc.val, (c + 8) + size.val.v)

\* nanonis_tcp.py:327-338: 'Error status' and 'Error size' have been read at c and c + 4
DecError(resp, st, c, status, size) ==
    IF status.err # "none" THEN DecOutcome(status.err, st, PyNone, PyNone, FALSE, PyNone, c)
    ELSE IF size.err # "none" THEN DecOutcome(size.err, st, status.val, PyNone, FALSE, PyNone, c + 4)
    ELSE IF size.val.v = 0 THEN
        DecOutcome(IF c + 8 # resp.body_size.v THEN "BodySizeMismatch" ELSE "none",
                   st, status.val, size.val, FALSE, PyNone, c + 8)
    ELSE DecDescription(resp, st, c, status, size,
                        from_binary(<<"string">>, PySlice(resp.body, c + 8, (c + 8) + size.val.v)))

\* nanonis_tcp.py:327-338: what follows the loop, whose locals are st
DecTail(resp, st) ==
    IF st.err # "none" THEN DecOutcome(st.err, st, PyNone, PyNone, FALSE, PyNone, st.bytecursor)
    ELSE DecError(resp, st, st.bytecursor,
                  from_binary(<<"uint32">>, PySlice(resp.body, st.bytecursor, st.bytecursor + 4)),
                  from_binary(<<"int">>, PySlice(resp.body, st.bytecursor + 4, st.bytecursor + 8)))

\* nanonis_tcp.py:277 parse_response(response, *vargs), in a process that can reserve
\* arrays of up to allocLimit elements
parse_response(resp, tags, allocLimit) ==
    DecTail(resp, DecLoop(DecStart, resp.body, tags, 0, allocLimit))

\* ------------------------------------------------------ encoder run
\* 'Bias.Set'
NameBiasSet == PyStr(<<66, 105, 97, 115, 46, 83, 101, 116>>)
\* a name of exactly 32 ASCII characters, and one of 33
Name32 == PyStr([i \in 1..32 |-> 65])
Name33 == PyStr([i \in 1..33 |-> 65])
\* 31 ASCII characters and U+00E9: 32 characters, 33 bytes
Name32Chars33Bytes == PyStr([i \in 1..32 |-> IF i = 32 THEN 233 ELSE 65])

CommandNames == {PyStr(<<>>), NameBiasSet, Name32, Name33, Name32Chars33Bytes}

\* the (tag, value) pairs a caller may pass
ArgPairs ==
    { <<<<"int">>, PyInt(1)>>, <<<<"int">>, PyInt(2)>>, <<<<"int">>, PyInt(3)>>,
      <<<<"uint16">>, PyInt(2)>>,
      <<<<"float32">>, PyFloat(0, 1, 1)>>,
      <<<<"string">>, PyStr(<<97, 98>>)>>,
      <<<<"string">>, PyStr(<<233>>)>>,
      <<<<"1DArr", "float32">>, PyList(<<PyFloat(0, 1, 0), PyFloat(0, 1, 1)>>)>>,
      <<<<"1DArr", "int">>, PyList(<<PyInt(7), PyInt(8), PyInt(9)>>)>>,
      <<<<"1DArr", "string">>, PyList(<<PyStr(<<97>>), PyStr(<<233>>)>>)>>,
      <<<<"int8">>, PyInt(1)>>,
      <<<<"1DArr", "int8">>, PyList(<<PyInt(1), PyInt(2)>>)>> }

NoMessage == [err |-> "pending", bytes |-> <<>>]

NoEnvelope == [command_name |-> PyStr(<<>>), body_size |-> PyInt(0), body |-> <<>>]
NoResult == DecOutcome("pending", DecStart, PyNone, PyNone, FALSE, PyNone, 0)

EncIdle == encPhase = "off" /\ command_name = PyStr(<<>>) /\ vargs = <<>> /\ message = NoMessage
DecIdle == decPhase = "off" /\ response = NoEnvelope /\ expected = <<>> /\ parsedResult = NoResult

\* the threads that share the instance, and the value of lock when no thread holds it
Threads == 1..NumThreads
Unlocked == 0

NoCall == [id |-> 0, command_name |-> PyStr(<<>>), vargs |-> <<>>]
NoReturn == [id |-> 0, err |-> "pending", envelope |-> NoEnvelope, from |-> {}]

NetIdle ==
    /\ pc = [t \in Threads |-> "off"]
    /\ lock = Unlocked
    /\ call = [t \in Threads |-> NoCall]
    /\ received = [t \in Threads |-> <<>>]
    /\ result = [t \in Threads |-> NoReturn]
    /\ nCalls = 0
    /\ requests = <<>>
    /\ stream = <<>>
    /\ sock = "off"
    /\ releases = 0
    /\ closeCalls = 0
    /\ process = "off"
    /\ sendalls = [t \in Threads |-> 0]
    /\ recvs = [t \in Threads |-> 0]

NoOutcome == [err |-> "pending", val |-> PyNone, description |-> PyNone]
NoDevice == [status |-> 0, hasDescription |-> FALSE, description |-> <<>>]

WrapIdle ==
    /\ wrapPhase = "off"
    /\ answer = NoEnvelope
    /\ device = NoDevice
    /\ wrapper = ""
    /\ outcome = NoOutcome

NoConversion == [err |-> "pending", val |-> PyNone]

ConvIdle ==
    /\ convPhase = "off"
    /\ convInput = <<>>
    /\ converted = NoConversion

NoRoundTrip == [packed |-> Raise("pending"), unpacked |-> RaiseVal("pending")]

RtIdle ==
    /\ rtPhase = "off"
    /\ rtTag = <<>>
    /\ rtValue = PyNone
    /\ roundTrip = NoRoundTrip

NoLimits == [BiasLimit |-> PyNone, XScannerLimit |-> PyNone, YScannerLimit |-> PyNone,
             ZScannerLimit |-> PyNone, LowerSetpointLimit |-> PyNone,
             UpperSetpointLimit |-> PyNone]
NoSetCall == [setter |-> "", args |-> <<>>]
NoSetOutcome == [err |-> "pending", sent |-> <<>>]

SetIdle ==
    /\ setPhase = "off"
    /\ limits = NoLimits
    /\ setCall = NoSetCall
    /\ setOutcome = NoSetOutcome

EncInit ==
    /\ encPhase = "build"
    /\ command_name = PyStr(<<>>)
    /\ vargs = <<>>
    /\ message = NoMessage
    /\ DecIdle
    /\ NetIdle
    /\ WrapIdle
    /\ ConvIdle
    /\ RtIdle
    /\ SetIdle

\* the caller writes one more (tag, value) pair of the call
AddPair ==
    /\ encPhase = "build"
    /\ Len(vargs) % 2 = 0
    /\ Len(vargs) < 2 * MaxPairs
    /\ \E p \in ArgPairs : vargs' = vargs \o <<p[1], p[2]>>
    /\ UNCHANGED <<encPhase, command_name, message, notEnc>>

\* the caller writes a tag without a value (an unbalanced call)
AddLoneTag ==
    /\ encPhase = "build"
    /\ Len(vargs) % 2 = 0
    /\ Len(vargs) < 2 * MaxPairs
    /\ \E p \in ArgPairs : vargs' = Append(vargs, p[1])
    /\ UNCHANGED <<encPhase, command_name, message, notEnc>>

\* the call construct_command(command_name, *vargs)
Encode ==
    /\ encPhase = "build"
    /\ \E n \in CommandNames :
        /\ command_name' = n
        /\ message' = construct_command(n, vargs)
    /\ encPhase' = "done"
    /\ UNCHANGED <<vargs, notEnc>>

EncNext == AddPair \/ AddLoneTag \/ Encode

SpecEnc == EncInit /\ [][EncNext]_vars

\* ------------------------------------------------------ decoder run
\* 4- and 5-byte pieces of a response body: int 0, 1, 5, -1 (0xFFFFFFFF), float32 3.3, 'abcde'
BodyChunks ==
    { <<0, 0, 0, 0>>, <<0, 0, 0, 1>>, <<0, 0, 0, 5>>, <<255, 255, 255, 255>>,
      <<64, 83, 51, 51>>, <<97, 98, 99, 100, 101>> }

ExpectedTags == { <<"int">>, <<"uint32">>, <<"float32">>, <<"string">>,
                  <<"1DArr", "int">>, <<"1DArr", "string">> }

\* 'Bias.Get'
NameBiasGet == PyStr(<<66, 105, 97, 115, 46, 71, 101, 116>>)

DecInit ==
    /\ decPhase = "build"
    /\ response = [command_name |-> NameBiasGet, body_size |-> PyInt(0), body |-> <<>>]
    /\ expected = <<>>
    /\ parsedResult = NoResult
    /\ EncIdle
    /\ NetIdle
    /\ WrapIdle
    /\ ConvIdle
    /\ RtIdle
    /\ SetIdle

\* the envelope send() returns has some more body bytes, and body_size == len(body)
AddChunk ==
    /\ decPhase = "build"
    /\ Len(expected) = 0
    /\ \E ch \in BodyChunks :
        /\ Len(response.body) < 4 * MaxChunks
        /\ response' = [response EXCEPT !.body = @ \o ch, !.body_size = PyInt(Len(response.body) + Len(ch))]
    /\ UNCHANGED <<decPhase, expected, parsedResult, notDec>>

\* the caller writes one more expected type tag of the parse_response call
AddTag ==
    /\ decPhase = "build"
    /\ Len(expected) < MaxTags
    /\ \E tag \in ExpectedTags : expected' = Append(expected, tag)
    /\ UNCHANGED <<decPhase, response, parsedResult, notDec>>

\* array sizes (elements) the process may be able to reserve: about a million, or any
AllocLimits == {1000000, 2147483647}

\* the call parse_response(response, *expected)
Parse ==
    /\ decPhase = "build"
    /\ \E allocLimit \in AllocLimits : parsedResult' = parse_response(response, expected, allocLimit)
    /\ decPhase' = "done"
    /\ UNCHANGED <<response, expected, notDec>>

DecNext == AddChunk \/ AddTag \/ Parse

SpecDec == DecInit /\ [][DecNext]_vars

\* ------------------------------------------------------- transport
\* nanonis_tcp.py:239 the most bytes one self.socket.recv(1024) returns
RecvSize == 1024

\* the send() calls the threads make: Bias.Get, Bias.Set with 1.5 V, a Bias.Set whose
\* type tag is not in the registry, and a Bias.Set with a type tag and no value
Commands ==
    { [command_name |-> NameBiasGet, vargs |-> <<>>],
      [command_name |-> NameBiasSet, vargs |-> <<<<"float32">>, PyFloat(0, 3, -1)>>],
      [command_name |-> NameBiasSet, vargs |-> <<<<"int8">>, PyInt(1)>>],
      [command_name |-> NameBiasSet, vargs |-> <<<<"float32">>>>] }

\* the body the peer answers with: the fields the wrapper of the command parses
\* (BiasGet: a float32; BiasSet: none), then error status 0 and error size 0
PeerBody(cmd_name) ==
    (IF cmd_name = NameBiasGet THEN to_binary(<<"float32">>, PyFloat(0, 3, -1)).bytes ELSE <<>>)
        \o to_binary(<<"uint32">>, PyInt(0)).bytes \o to_binary(<<"int">>, PyInt(0)).bytes

\* the response the peer writes: the 40-byte header send() takes apart, then the body
PeerResponse(cmd_name) ==
    construct_header(cmd_name, PyInt(Len(PeerBody(cmd_name))), FALSE).bytes \o PeerBody(cmd_name)

\* construct_command(...) of each send() call the threads make, and the length of the
\* peer's response to each command, computed once
Encodings == [c \in Commands |-> construct_command(c.command_name, c.vargs)]
ResponseLengths == [n \in {c.command_name : c \in Commands} |-> Len(PeerResponse(n))]

\* The peer's byte stream is kept as a sequence of segments: segment [of, command_name,
\* lo, hi] stands for the bytes lo..hi of the response to call "of", a request with that
\* command name.
SegLen(seg) == (seg.hi - seg.lo) + 1

\* the number of bytes of a piece of the stream
RECURSIVE StreamLen(_)
StreamLen(piece) == IF piece = <<>> THEN 0 ELSE SegLen(piece[1]) + StreamLen(Tail(piece))

\* the first k bytes of a piece of the stream, and what is left after them
RECURSIVE Take(_, _)
Take(piece, k) ==
    IF k <= 0 \/ piece = <<>> THEN <<>>
    ELSE IF SegLen(piece[1]) <= k THEN <<piece[1]>> \o Take(Tail(piece), k - SegLen(piece[1]))
    ELSE <<[piece[1] EXCEPT !.hi = (piece[1].lo + k) - 1]>>

RECURSIVE Drop(_, _)
Drop(piece, k) ==
    IF k <= 0 \/ piece = <<>> THEN piece
    ELSE IF SegLen(piece[1]) <= k THEN Drop(Tail(piece), k - SegLen(piece[1]))
    ELSE <<[piece[1] EXCEPT !.lo = piece[1].lo + k]>> \o Tail(piece)

\* the bytes of a piece of the stream, and the calls whose responses they belong to
RECURSIVE Bytes(_)
Bytes(piece) ==
    IF piece = <<>> THEN <<>>
    ELSE SubSeq(PeerResponse(piece[1].command_name), piece[1].lo, piece[1].hi) \o Bytes(Tail(piece))
Owners(piece) == {piece[i].of : i \in 1..Len(piece)}

\* the lengths a recv(RecvSize) can return when avail bytes of the peer's stream are
\* outstanding: a response may arrive cut after its 40-byte header or 4 bytes into its body,
\* or all that was written
SegmentCuts == {40, 44}
RecvLengths(avail) ==
    {k \in SegmentCuts \cup {avail} : k >= 1 /\ k <= avail /\ k <= RecvSize}
        \cup (IF avail > RecvSize THEN {RecvSize} ELSE {})

\* nanonis_tcp.py:260-265: the body size differs, the message of the exception is built
BodySizeError(returned_command, body_size, body, text) ==
    IF text.err # "none" THEN [err |-> text.err, envelope |-> NoEnvelope]
    ELSE [err |-> "nanonisException", envelope |-> NoEnvelope]

\* nanonis_tcp.py:254-274 for the decoded name and size and the body
Envelope(returned_command, body_size, body) ==
    IF returned_command.err # "none" THEN [err |-> returned_command.err, envelope |-> NoEnvelope]
    ELSE IF body_size.err # "none" THEN [err |-> body_size.err, envelope |-> NoEnvelope]
    ELSE IF body_size.val.v # Len(body)
         THEN BodySizeError(returned_command, body_size, body, from_binary(<<"string">>, body))
    ELSE [err |-> "none",
          envelope |-> [command_name |-> returned_command.val, body_size |-> body_size.val,
                        body |-> body]]

\* nanonis_tcp.py:254-274: what send() makes of the bytes resp that transmit returned
Unpack(resp) ==
    Envelope(from_binary(<<"string">>, PySlice(resp, 0, 32)),
             from_binary(<<"int">>, PySlice(resp, 32, 36)),
             PySlice(resp, 40, Len(resp)))

\* self.lock.acquire() waits while another thread holds the lock l
acquire_nowait(l) == TRUE
acquire(l) == l = Unlocked

\* self.transmit(construct_command(...)): the argument is evaluated first, its outcome is m;
\* when it raised, transmit is not called and the requests reqs on the wire stay as they are
transmit_unchecked(reqs, c, m) == Append(reqs, [id |-> c.id, command_name |-> c.command_name])
transmit(reqs, c, m) ==
    IF m.err # "none" THEN reqs ELSE Append(reqs, [id |-> c.id, command_name |-> c.command_name])

\* nanonis_tcp.py:266-269 "except: raise" and the finally clause: where the thread is
\* after an exception in send(): the call is over
except_retry == "transmit"
except_raise == "idle"

\* nanonis_tcp.py:269-270 the finally clause, self.lock.release(): the lock l afterwards
release_skipped(l) == l
release(l) == Unlocked

\* the same clause when construct_command or transmit raised: a release placed after the
\* try statement would be skipped, the one in the finally clause runs
release_after_try(l) == l
release_in_finally(l) == release(l)

\* nanonis_tcp.py:231-232 exit_handler: the state of the socket s after self.close()
exit_handler_pass(s) == s
exit_handler(s) == "closed"

\* socket.close() releases the descriptor of a socket that is open, and only of one
Released(s, n) == IF s = "open" THEN n + 1 ELSE n

\* how a send() call of thread t ends: with the envelope, or raising err
Ended(t, err, envelope, from) == [id |-> call[t].id, err |-> err, envelope |-> envelope, from |-> from]

\* nanonis_tcp.py:214-232: the socket is connected, the lock allocated, no thread in send()
Init ==
    /\ pc = [t \in Threads |-> "idle"]
    /\ lock = Unlocked
    /\ call = [t \in Threads |-> NoCall]
    /\ received = [t \in Threads |-> <<>>]
    /\ result = [t \in Threads |-> NoReturn]
    /\ nCalls = 0
    /\ requests = <<>>
    /\ stream = <<>>
    /\ sock = "open"
    /\ releases = 0
    /\ closeCalls = 0
    /\ process = "running"
    /\ sendalls = [t \in Threads |-> 0]
    /\ recvs = [t \in Threads |-> 0]
    /\ EncIdle
    /\ DecIdle
    /\ WrapIdle
    /\ ConvIdle
    /\ RtIdle
    /\ SetIdle

\* thread t calls send(command_name, *vargs) and reaches self.lock.acquire()
Call(t) ==
    /\ process = "running"
    /\ pc[t] = "idle"
    /\ nCalls < MaxCalls
    /\ \E c \in Commands :
        call' = [call EXCEPT ![t] = [id |-> nCalls + 1, command_name |-> c.command_name,
                                     vargs |-> c.vargs]]
    /\ nCalls' = nCalls + 1
    /\ pc' = [pc EXCEPT ![t] = "acquire"]
    /\ received' = [received EXCEPT ![t] = <<>>]
    /\ result' = [result EXCEPT ![t] = NoReturn]
    /\ sendalls' = [sendalls EXCEPT ![t] = 0]
    /\ recvs' = [recvs EXCEPT ![t] = 0]
    /\ UNCHANGED <<lock, requests, stream, sock, releases, closeCalls, process, notNet>>

\* self.lock.acquire() returns in thread t
Acquire(t) ==
    /\ process = "running"
    /\ pc[t] = "acquire"
    /\ acquire(lock)
    /\ lock' = t
    /\ pc' = [pc EXCEPT ![t] = "transmit"]
    /\ UNCHANGED <<call, received, result, nCalls, requests, stream,
                   sock, releases, closeCalls, process, sendalls, recvs, notNet>>

\* construct_command(...) and self.socket.sendall(message) in thread t. When
\* construct_command raises, or sendall raises because the socket is closed, the finally
\* clause releases the lock and send() raises
Transmit(t) ==
    /\ process = "running"
    /\ pc[t] = "transmit"
    /\ LET m == Encodings[[command_name |-> call[t].command_name, vargs |-> call[t].vargs]]
       IN  IF m.err # "none"
           THEN /\ result' = [result EXCEPT ![t] = Ended(t, m.err, NoEnvelope, {})]
                /\ requests' = transmit(requests, call[t], m)
                /\ lock' = release_in_finally(lock)
                /\ pc' = [pc EXCEPT ![t] = except_raise]
                /\ UNCHANGED sendalls
           ELSE IF sock # "open"
           THEN /\ result' = [result EXCEPT ![t] = Ended(t, "OSError", NoEnvelope, {})]
                /\ sendalls' = [sendalls EXCEPT ![t] = @ + 1]
                /\ lock' = release_in_finally(lock)
                /\ pc' = [pc EXCEPT ![t] = except_raise]
                /\ UNCHANGED requests
           ELSE /\ requests' = transmit(requests, call[t], m)
                /\ sendalls' = [sendalls EXCEPT ![t] = @ + 1]
                /\ pc' = [pc EXCEPT ![t] = "recv"]
                /\ UNCHANGED <<result, lock>>
    /\ UNCHANGED <<call, received, nCalls, stream, sock, releases, closeCalls, process, recvs, notNet>>

\* the peer reads the oldest request and writes its response
PeerRespond ==
    /\ process = "running"
    /\ Len(requests) > 0
    /\ requests' = Tail(requests)
    /\ stream' = Append(stream, [of |-> requests[1].id, command_name |-> requests[1].command_name,
                                 lo |-> 1, hi |-> ResponseLengths[requests[1].command_name]])
    /\ UNCHANGED <<pc, lock, call, received, result, nCalls,
                   sock, releases, closeCalls, process, sendalls, recvs, notNet>>

\* self.socket.recv(1024) returns in thread t with the first k outstanding bytes
Recv(t) ==
    /\ process = "running"
    /\ pc[t] = "recv"
    /\ StreamLen(stream) > 0
    /\ \E k \in RecvLengths(StreamLen(stream)) :
        /\ received' = [received EXCEPT ![t] = Take(stream, k)]
        /\ stream' = Drop(stream, k)
    /\ pc' = [pc EXCEPT ![t] = "unpack"]
    /\ recvs' = [recvs EXCEPT ![t] = @ + 1]
    /\ UNCHANGED <<lock, call, result, nCalls, requests, sock, releases, closeCalls, process,
                   sendalls, notNet>>

\* self.socket.recv(1024) raises in thread t: the socket was closed while t waited in it;
\* the finally clause releases the lock and send() raises
RecvFault(t) ==
    /\ process = "running"
    /\ pc[t] = "recv"
    /\ sock # "open"
    /\ result' = [result EXCEPT ![t] = Ended(t, "OSError", NoEnvelope, {})]
    /\ recvs' = [recvs EXCEPT ![t] = @ + 1]
    /\ lock' = release_in_finally(lock)
    /\ pc' = [pc EXCEPT ![t] = except_raise]
    /\ UNCHANGED <<call, received, nCalls, requests, stream, sock, releases, closeCalls, process,
                   sendalls, notNet>>

\* nanonis_tcp.py:254-274 in thread t: the response is taken apart, the finally clause
\* releases the lock, send() returns the envelope or raises
Release(t) ==
    /\ process = "running"
    /\ pc[t] = "unpack"
    /\ pc' = [pc EXCEPT ![t] = "idle"]
    /\ lock' = release(lock)
    /\ received' = [received EXCEPT ![t] = <<>>]
    /\ result' = [result EXCEPT ![t] = Ended(t, Unpack(Bytes(received[t])).err,
                                             Unpack(Bytes(received[t])).envelope,
                                             Owners(received[t]))]
    /\ UNCHANGED <<call, nCalls, requests, stream, sock, releases, closeCalls, process,
                   sendalls, recvs, notNet>>

\* nanonis_tcp.py:234-235 an explicit close(): self.socket.close()
Close ==
    /\ process = "running"
    /\ closeCalls < MaxCloses
    /\ closeCalls' = closeCalls + 1
    /\ sock' = "closed"
    /\ releases' = Released(sock, releases)
    /\ UNCHANGED <<pc, lock, call, received, result, nCalls, requests, stream, process,
                   sendalls, recvs, notNet>>

\* normal termination of the interpreter: the exit handler registered at construction
\* runs (nanonis_tcp.py:230-232), then the process and its threads are gone
Exit ==
    /\ process = "running"
    /\ process' = "exited"
    /\ closeCalls' = closeCalls + 1
    /\ sock' = exit_handler(sock)
    /\ releases' = IF exit_handler(sock) = "closed" THEN Released(sock, releases) ELSE releases
    /\ pc' = [t \in Threads |-> "exited"]
    /\ lock' = Unlocked
    /\ call' = [t \in Threads |-> NoCall]
    /\ received' = [t \in Threads |-> <<>>]
    /\ result' = [t \in Threads |-> NoReturn]
    /\ requests' = <<>>
    /\ stream' = <<>>
    /\ sendalls' = [t \in Threads |-> 0]
    /\ recvs' = [t \in Threads |-> 0]
    /\ UNCHANGED <<nCalls, notNet>>

Next ==
    \/ \E t \in Threads : Call(t)
    \/ \E t \in Threads : Acquire(t)
    \/ \E t \in Threads : Transmit(t)
    \/ PeerRespond
    \/ \E t \in Threads : Recv(t)
    \/ \E t \in Threads : RecvFault(t)
    \/ \E t \in Threads : Release(t)
    \/ Close
    \/ Exit

Spec == Init /\ [][Next]_vars

\* The runs the liveness properties are checked on: the same program with fewer send()
\* calls and explicit close() calls in one run
CallFair(t) == nCalls < MaxFairCalls /\ Call(t)
CloseFair == closeCalls < MaxFairCloses /\ Close

NextFair ==
    \/ \E t \in Threads : CallFair(t)
    \/ \E t \in Threads : Acquire(t)
    \/ \E t \in Threads : Transmit(t)
    \/ PeerRespond
    \/ \E t \in Threads : Recv(t)
    \/ \E t \in Threads : RecvFault(t)
    \/ \E t \in Threads : Release(t)
    \/ CloseFair
    \/ Exit

\* Scheduling: a thread that can take its next step in send() eventually takes it, a
\* thread waiting for the lock gets it if it is free again and again (fair scheduling of
\* the waiters), and the peer eventually answers a request it has been sent. Release(t)
\* is enabled exactly while pc[t] = "unpack" in the running process and a Release(t) step
\* ends that, so its weak fairness is stated as: t is not at "unpack" forever.
Fairness ==
    /\ \A t \in Threads :
        /\ SF_vars(Acquire(t))
        /\ WF_vars(Transmit(t))
        /\ WF_vars(Recv(t))
        /\ WF_vars(RecvFault(t))
        /\ []<>(~(pc[t] = "unpack" /\ process = "running"))
    /\ WF_vars(PeerRespond)

SpecFair == Init /\ [][NextFair]_vars /\ Fairness

\* ---------------------------------------------------- wrapper run
\* 'AtomTrack.PropsGet'
NameAtomTrackPropsGet ==
    PyStr(<<65, 116, 111, 109, 84, 114, 97, 99, 107, 46, 80, 114, 111, 112, 115, 71, 101, 116>>)

\* the command wrappers that are called, and the command each sends
Wrappers == {"BiasSet", "BiasGet", "AtomTrackPropsGet"}
WrapperCommand(w) ==
    IF w = "BiasSet" THEN NameBiasSet ELSE IF w = "BiasGet" THEN NameBiasGet ELSE NameAtomTrackPropsGet

\* float32 values the device answers with (3.3 and 1.5), its error statuses, and its error
\* descriptions ('abcde')
DeviceValues == {<<64, 83, 51, 51>>, <<63, 192, 0, 0>>}
DeviceStatuses == {0, 1}
DeviceDescriptions == {<<>>, <<97, 98, 99, 100, 101>>}

\* the wrappers here expect no arrays: parse_response reserves none
NoArrays == 0

\* a wrapper returns val, or raises err (carrying description when it has one)
Returns(val) == [err |-> "none", val |-> val, description |-> PyNone]
Raises(kind, description) == [err |-> kind, val |-> PyNone, description |-> description]

\* nanonis_tcp.py:388 BiasSet, once send() has returned the envelope resp: nothing is parsed
BiasSet(resp) == Returns(PyNone)

\* nanonis_tcp.py:394 BiasGet, once send() has returned the envelope resp
BiasGetParsed(p) == IF p.err # "none" THEN Raises(p.err, PyNone) ELSE Returns(p.parsed[0])
BiasGet(resp) == BiasGetParsed(parse_response(resp, <<<<"float32">>>>, NoArrays))

\* nanonis_tcp.py:619-624 AtomTrackPropsGet, once send() has returned the envelope resp
AtomTrackPropsGetParsed(p) ==
    IF p.err # "none" THEN Raises(p.err, PyNone)
    ELSE IF p.status # PyInt(0) THEN Raises("nanonisException", PyNone)
    ELSE Returns([iGain |-> p.parsed[0], freq |-> p.parsed[1], amplitude |-> p.parsed[2],
                  phase |-> p.parsed[3], soDelay |-> p.parsed[4]])
AtomTrackPropsGet(resp) ==
    AtomTrackPropsGetParsed(parse_response(resp, [i \in 1..5 |-> <<"float32">>], NoArrays))

WrapInit ==
    /\ wrapPhase = "idle"
    /\ answer = NoEnvelope
    /\ device = NoDevice
    /\ wrapper = ""
    /\ outcome = NoOutcome
    /\ EncIdle
    /\ DecIdle
    /\ NetIdle
    /\ ConvIdle
    /\ RtIdle
    /\ SetIdle

\* a wrapper is called and its send() has written the request
CallWrapper ==
    /\ wrapPhase = "idle"
    /\ \E w \in Wrappers :
        /\ wrapper' = w
        /\ answer' = [command_name |-> PyStr(WrapperCommand(w).v \o Zeros(32 - Len(WrapperCommand(w).v))),
                      body_size |-> PyInt(0), body |-> <<>>]
    /\ wrapPhase' = "sent"
    /\ UNCHANGED <<device, outcome, notWrap>>

\* the device puts one more float32 field into the body of its response
DeviceField ==
    /\ wrapPhase = "sent"
    /\ Len(answer.body) < 4 * MaxFields
    /\ \E x \in DeviceValues :
        answer' = [answer EXCEPT !.body = @ \o x, !.body_size = PyInt(Len(answer.body) + 4)]
    /\ UNCHANGED <<wrapPhase, device, wrapper, outcome, notWrap>>

\* the device ends its response with the error status, the size of the description and the
\* description; send() returns the envelope
DeviceError ==
    /\ wrapPhase = "sent"
    /\ \E s \in DeviceStatuses : \E d \in DeviceDescriptions :
        /\ device' = [status |-> s, hasDescription |-> d # <<>>, description |-> d]
        /\ answer' = [answer EXCEPT
                        !.body = @ \o to_binary(<<"uint32">>, PyInt(s)).bytes
                                   \o to_binary(<<"int">>, PyInt(Len(d))).bytes \o d,
                        !.body_size = PyInt(Len(answer.body) + 8 + Len(d))]
    /\ wrapPhase' = "answered"
    /\ UNCHANGED <<wrapper, outcome, notWrap>>

\* the wrapper goes on with the envelope and returns or raises
ReturnWrapper ==
    /\ wrapPhase = "answered"
    /\ outcome' = IF wrapper = "BiasSet" THEN BiasSet(answer)
                  ELSE IF wrapper = "BiasGet" THEN BiasGet(answer)
                  ELSE AtomTrackPropsGet(answer)
    /\ wrapPhase' = "done"
    /\ UNCHANGED <<answer, device, wrapper, notWrap>>

WrapNext == CallWrapper \/ DeviceField \/ DeviceError \/ ReturnWrapper

SpecWrap == WrapInit /\ [][WrapNext]_vars

\* ------------------------------------------------------- convert run
\* nanonis_tcp.py:35-42 si_prefix: the multiplier of each prefix, as its power of ten
\* ('' 1.0, 'a' 1e-18, 'f' 1e-15, 'p' 1e-12, 'n' 1e-9, 'u' 1e-6, 'm' 1e-3)
si_prefix ==
    [k \in {<<>>, <<97>>, <<102>>, <<112>>, <<110>>, <<117>>, <<109>>} |->
        IF k = <<>> THEN 0
        ELSE IF k = <<97>> THEN -18
        ELSE IF k = <<102>> THEN -15
        ELSE IF k = <<112>> THEN -12
        ELSE IF k = <<110>> THEN -9
        ELSE IF k = <<117>> THEN -6
        ELSE -3]

\* the character classes of the pattern r'^(-)?([0-9.]+)\s*([A-Za-z]*)$' (code points)
IsNumberChar(c) == (c >= 48 /\ c <= 57) \/ c = 46
IsSpaceChar(c) == (c >= 9 /\ c <= 13) \/ (c >= 28 /\ c <= 32)
IsLetterChar(c) == (c >= 65 /\ c <= 90) \/ (c >= 97 /\ c <= 122)
InClass(class, c) ==
    IF class = "number" THEN IsNumberChar(c)
    ELSE IF class = "space" THEN IsSpaceChar(c)
    ELSE IsLetterChar(c)

\* the index after the longest run of characters of the class in s from index i on
RECURSIVE Span(_, _, _)
Span(s, i, class) ==
    IF i <= Len(s) /\ InClass(class, s[i]) THEN Span(s, i + 1, class) ELSE i

\* self.regex.match(input_data): the groups, or None. The three classes share no
\* character, so only the greedy split can match; '$' matches at the end of the
\* string and before a newline that ends it
regex_match(s) ==
    LET i1 == IF Len(s) > 0 /\ s[1] = 45 THEN 2 ELSE 1
        i2 == Span(s, i1, "number")
        i3 == Span(s, i2, "space")
        i4 == Span(s, i3, "letter")
    IN  IF i2 > i1 /\ (i4 = Len(s) + 1 \/ (i4 = Len(s) /\ s[i4] = 10))
        THEN [matched |-> TRUE, groups |-> <<i1 = 2, SubSeq(s, i1, i2 - 1), SubSeq(s, i3, i4 - 1)>>]
        ELSE [matched |-> FALSE, groups |-> <<FALSE, <<>>, <<>>>>]

\* how many characters of s are c
RECURSIVE CountChar(_, _)
CountChar(s, c) ==
    IF s = <<>> THEN 0 ELSE (IF Head(s) = c THEN 1 ELSE 0) + CountChar(Tail(s), c)

\* the digits of s, '.' left out, as a number
RECURSIVE DigitsValue(_, _)
DigitsValue(s, acc) ==
    IF s = <<>> THEN acc
    ELSE DigitsValue(Tail(s), IF Head(s) = 46 THEN acc ELSE (10 * acc) + (Head(s) - 48))

\* how many digits of s follow its '.'
RECURSIVE FractionDigits(_)
FractionDigits(s) ==
    IF s = <<>> THEN 0
    ELSE IF Head(s) = 46 THEN Len(s) - 1
    ELSE FractionDigits(Tail(s))

\* float(s) for a string s of digits and '.': the number digits * 10^(-places), or
\* ValueError when s has no digit or more than one '.'
float(s) ==
    IF CountChar(s, 46) > 1 \/ Len(s) - CountChar(s, 46) < 1 THEN RaiseVal("ValueError")
    ELSE Val([digits |-> DigitsValue(s, 0), places |-> FractionDigits(s)])

\* nanonis_tcp.py:341-369 convert: the value sign * float(groups[1]) * si_prefix[groups[2]],
\* kept as its three factors
convert(input_data) ==
    LET match == regex_match(input_data)
        sign == IF match.groups[1] THEN -1 ELSE 1
    IN  IF ~match.matched THEN RaiseVal("Malformed number: Not a correctly formatted number")
        ELSE IF float(match.groups[2]).err # "none" THEN float(match.groups[2])
        ELSE IF match.groups[3] \notin DOMAIN si_prefix
             THEN RaiseVal("Malformed number: SI prefix not recognized")
        ELSE Val([sign |-> sign, number |-> float(match.groups[2]).val,
                  multiplier |-> si_prefix[match.groups[3]]])

\* the characters the texts are written with: '-', '.', '4', 'm', 'Q', ' ', newline
TextChars == {45, 46, 52, 109, 81, 32, 10}

ConvInit ==
    /\ convPhase = "build"
    /\ convInput = <<>>
    /\ converted = NoConversion
    /\ EncIdle
    /\ DecIdle
    /\ NetIdle
    /\ WrapIdle
    /\ RtIdle
    /\ SetIdle

\* the caller writes one more character of the text
AddChar ==
    /\ convPhase = "build"
    /\ Len(convInput) < MaxText
    /\ \E c \in TextChars : convInput' = Append(convInput, c)
    /\ UNCHANGED <<convPhase, converted, notConv>>

\* the caller calls convert(text)
Convert ==
    /\ convPhase = "build"
    /\ converted' = convert(convInput)
    /\ convPhase' = "done"
    /\ UNCHANGED <<convInput, notConv>>

ConvNext == AddChar \/ Convert

SpecConv == ConvInit /\ [][ConvNext]_vars

\* ------------------------------------------------------- round trip run
\* the values each scalar type can hold that the round trip is run on
\* int: the powers of two to 2^30, their predecessors and negatives, and both ends
IntValues ==
    LET P == {2 ^ k : k \in 0..30}
    IN  {PyInt(v) : v \in P \cup {p - 1 : p \in P} \cup {0 - p : p \in P}
                          \cup {2147483647, (0 - 2147483647) - 1}}

\* uint16: 0 .. 65535
Uint16Values == {x \in IntValues : x.v >= 0 /\ x.v <= 65535}

\* uint32: 0 .. 2^32 - 1; a value from 2^31 on is kept as its four base-256 digits
Uint32Values ==
    {x \in IntValues : x.v >= 0}
        \cup {[t |-> "bigint", v |-> b] : b \in {<<128, 0, 0, 0>>, <<128, 0, 0, 1>>,
                                                 <<200, 1, 2, 3>>, <<255, 255, 255, 255>>}}

\* float32: (-1)^s * m * 2^e with a 24-bit m, from the smallest subnormal 2^-149 to the
\* largest finite value (2^24 - 1) * 2^104; the zeros, the infinities and a quiet NaN
Float32Values ==
    {PyFloat(s, m, e) : s \in {0, 1}, m \in {1, 3, 8388609, 16777215},
                        e \in {-149, -127, -1, 0, 1, 104}}
        \cup {[t |-> "float", v |-> <<s, E, F, 0>>] : s \in {0, 1},
                                                      E \in {0, 2047}, F \in {0}}
        \cup {[t |-> "float", v |-> <<0, 2047, 4194304, 0>>]}

\* float64: sign, exponent field and the two parts of the fraction field, 0.1 among them
Float64Values ==
    {[t |-> "float", v |-> <<s, E, Fhi, Flo>>] :
        s \in {0, 1}, E \in {0, 1, 1019, 1023, 2046, 2047},
        Fhi \in {0, 1, 5033164, 8388607}, Flo \in {0, 1, 429496730, 536870911}}

ValuesOf(tag) ==
    IF tag = <<"int">> THEN IntValues
    ELSE IF tag = <<"uint16">> THEN Uint16Values
    ELSE IF tag = <<"uint32">> THEN Uint32Values
    ELSE IF tag = <<"float32">> THEN Float32Values
    ELSE Float64Values

ScalarTypeTags == {<<"int">>, <<"uint16">>, <<"uint32">>, <<"float32">>, <<"float64">>}

RtInit ==
    /\ rtPhase = "build"
    /\ rtTag = <<>>
    /\ rtValue = PyNone
    /\ roundTrip = NoRoundTrip
    /\ EncIdle
    /\ DecIdle
    /\ NetIdle
    /\ WrapIdle
    /\ ConvIdle
    /\ SetIdle

\* the caller chooses a scalar type tag and a value of that type
ChooseValue ==
    /\ rtPhase = "build"
    /\ rtTag = <<>>
    /\ \E tag \in ScalarTypeTags :
        /\ rtTag' = tag
        /\ \E x \in ValuesOf(tag) : rtValue' = x
    /\ UNCHANGED <<rtPhase, roundTrip, notRt>>

\* the caller calls from_binary(tag, to_binary(tag, value))
RoundTrip ==
    /\ rtPhase = "build"
    /\ rtTag # <<>>
    /\ roundTrip' = [packed |-> to_binary(rtTag, rtValue),
                     unpacked |-> IF to_binary(rtTag, rtValue).err # "none"
                                  THEN RaiseVal(to_binary(rtTag, rtValue).err)
                                  ELSE from_binary(rtTag, to_binary(rtTag, rtValue).bytes)]
    /\ rtPhase' = "done"
    /\ UNCHANGED <<rtTag, rtValue, notRt>>

RtNext == ChooseValue \/ RoundTrip

SpecRt == RtInit /\ [][RtNext]_vars

\* ------------------------------------------------------- setter run
\* the command names of the setters with a safety limit
NameXYPosSet == PyStr(<<70, 111, 108, 77, 101, 46, 88, 89, 80, 111, 115, 83, 101, 116>>)
NameZPosSet == PyStr(<<90, 67, 116, 114, 108, 46, 90, 80, 111, 115, 83, 101, 116>>)
NameSetpntSet == PyStr(<<90, 67, 116, 114, 108, 46, 83, 101, 116, 112, 110, 116, 83, 101, 116>>)
NameTipLiftSet == PyStr(<<90, 67, 116, 114, 108, 46, 84, 105, 112, 76, 105, 102, 116, 83, 101, 116>>)

\* binary64 values by their fields
Float64(s, E, Fhi, Flo) == [t |-> "float", v |-> <<s, E, Fhi, Flo>>]
IsNaN(f) == f[2] = 2047 /\ (f[3] # 0 \/ f[4] # 0)
IsZero(f) == f[2] = 0 /\ f[3] = 0 /\ f[4] = 0
MagnitudeLess(a, b) ==
    \/ a[2] < b[2]
    \/ a[2] = b[2] /\ a[3] < b[3]
    \/ a[2] = b[2] /\ a[3] = b[3] /\ a[4] < b[4]

\* a < b and a <= b for binary64 a and b: false when either is a NaN; -0.0 == 0.0
FloatLess(a, b) ==
    /\ ~IsNaN(a)
    /\ ~IsNaN(b)
    /\ ~(IsZero(a) /\ IsZero(b))
    /\ IF a[1] # b[1] THEN a[1] = 1
       ELSE IF a[1] = 0 THEN MagnitudeLess(a, b)
       ELSE MagnitudeLess(b, a)
FloatLE(a, b) == ~IsNaN(a) /\ ~IsNaN(b) /\ (FloatLess(a, b) \/ a = b \/ (IsZero(a) /\ IsZero(b)))

\* x <= y for Python numbers (int or float) x and y
PyLE(x, y) ==
    IF x.t = "int" /\ y.t = "int" THEN x.v <= y.v ELSE FloatLE(AsFloat(x), AsFloat(y))

\* -x for a Python number x
PyNeg(x) ==
    IF x.t = "int" THEN PyInt(0 - x.v) ELSE Float64(1 - x.v[1], x.v[2], x.v[3], x.v[4])

\* lo <= x <= hi
Within(lo, x, hi) == PyLE(lo, x) /\ PyLE(x, hi)

\* the products sign * float(number) * multiplier that convert computes with rounding:
\* '100n' is 100.0 * 1e-9 = 1.0000000000000001e-07
RoundedProducts ==
    [c \in {[sign |-> 1, number |-> [digits |-> 100, places |-> 0], multiplier |-> -9]} |->
        Float64(0, 999, 5685140, 448573257)]

\* the float that convert returns for the factors c: exact for a whole number with no prefix
ConvertedFloat(c) ==
    IF c.number.places = 0 /\ c.multiplier = 0
    THEN PyFloat(IF c.sign < 0 THEN 1 ELSE 0, c.number.digits, 0)
    ELSE RoundedProducts[c]

\* the float convert returned, or what it raised
ConvertedArg(c) == IF c.err # "none" THEN c ELSE Val(ConvertedFloat(c.val))

\* "if type(x) is str: x_val = self.convert(x) else: x_val = float(x)"
ArgValue(x) ==
    IF x.t = "str" THEN ConvertedArg(convert(x.v)) ELSE Val([t |-> "float", v |-> AsFloat(x)])

\* what a setter does after its checks: it raises, or it calls self.send(name, *args)
SetterRaises(kind) == [err |-> kind, name |-> PyStr(<<>>), args |-> <<>>]
SendRequest(name, args) == [err |-> "none", name |-> name, args |-> args]

\* self.send(name, *args) as far as the write, m being construct_command(name, *args):
\* what it raises before writing, and the message it writes to the socket
Written(m) ==
    IF m.err # "none" THEN [err |-> m.err, sent |-> <<>>] ELSE [err |-> "none", sent |-> <<m.bytes>>]

\* the outcome of a setter that did r
SetterOutcome(r) ==
    IF r.err # "none" THEN [err |-> r.err, sent |-> <<>>]
    ELSE Written(construct_command(r.name, r.args))

\* nanonis_tcp.py:371-390 BiasSet(bias), as far as the write; bias_val is the outcome of
\* the conversion of bias
BiasSetChecked(self, bias_val) ==
    IF bias_val.err # "none" THEN SetterRaises(bias_val.err)
    ELSE IF Within(PyNeg(self.BiasLimit), bias_val.val, self.BiasLimit)
    THEN SendRequest(NameBiasSet, <<<<"float32">>, bias_val.val>>)
    ELSE SetterRaises("Bias out of bounds")
BiasSetRequest(self, bias) == BiasSetChecked(self, ArgValue(bias))

\* nanonis_tcp.py:397-425 TipXYSet(X, Y, wait), as far as the write
TipXYSetChecked(self, X_val, Y_val, wait) ==
    IF X_val.err # "none" THEN SetterRaises(X_val.err)
    ELSE IF Y_val.err # "none" THEN SetterRaises(Y_val.err)
    ELSE IF ~Within(PyNeg(self.XScannerLimit), X_val.val, self.XScannerLimit)
    THEN SetterRaises("X out of bounds")
    ELSE IF ~Within(PyNeg(self.YScannerLimit), Y_val.val, self.YScannerLimit)
    THEN SetterRaises("Y out of bounds")
    ELSE SendRequest(NameXYPosSet, <<<<"float64">>, X_val.val,
                                    <<"float64">>, Y_val.val, <<"uint32">>, wait>>)
TipXYSetRequest(self, X, Y, wait) == TipXYSetChecked(self, ArgValue(X), ArgValue(Y), wait)

\* nanonis_tcp.py:432-450 TipZSet(Z), as far as the write
TipZSetChecked(self, Z_val) ==
    IF Z_val.err # "none" THEN SetterRaises(Z_val.err)
    ELSE IF ~Within(PyNeg(self.ZScannerLimit), Z_val.val, self.ZScannerLimit)
    THEN SetterRaises("Z out of bounds")
    ELSE SendRequest(NameZPosSet, <<<<"float32">>, Z_val.val>>)
TipZSetRequest(self, Z) == TipZSetChecked(self, ArgValue(Z))

\* nanonis_tcp.py:512-530 SetpointSet(setpoint), as far as the write
SetpointSetChecked(self, setpoint_val) ==
    IF setpoint_val.err # "none" THEN SetterRaises(setpoint_val.err)
    ELSE IF ~Within(self.LowerSetpointLimit, setpoint_val.val, self.UpperSetpointLimit)
    THEN SetterRaises("Setpoint out of bounds")
    ELSE SendRequest(NameSetpntSet, <<<<"float32">>, setpoint_val.val>>)
SetpointSetRequest(self, setpoint) == SetpointSetChecked(self, ArgValue(setpoint))

\* nanonis_tcp.py:652-668 ZCtrlTiplLiftSet(tipLift), as far as the write
ZCtrlTiplLiftSetChecked(self, tipLiftVal) ==
    IF tipLiftVal.err # "none" THEN SetterRaises(tipLiftVal.err)
    ELSE IF ~Within(PyNeg(self.ZScannerLimit), tipLiftVal.val, self.ZScannerLimit)
    THEN SetterRaises("Z out of bounds")
    ELSE SendRequest(NameTipLiftSet, <<<<"float32">>, tipLiftVal.val>>)
ZCtrlTiplLiftSetRequest(self, tipLift) == ZCtrlTiplLiftSetChecked(self, ArgValue(tipLift))

Setters == {"BiasSet", "TipXYSet", "TipZSet", "SetpointSet", "ZCtrlTiplLiftSet"}

SetterDoes(self, c) ==
    IF c.setter = "BiasSet" THEN BiasSetRequest(self, c.args[1])
    ELSE IF c.setter = "TipXYSet" THEN TipXYSetRequest(self, c.args[1], c.args[2], c.args[3])
    ELSE IF c.setter = "TipZSet" THEN TipZSetRequest(self, c.args[1])
    ELSE IF c.setter = "SetpointSet" THEN SetpointSetRequest(self, c.args[1])
    ELSE ZCtrlTiplLiftSetRequest(self, c.args[1])

SetterRequest(self, c) == SetterOutcome(SetterDoes(self, c))

\* nanonis_tcp.py:222-227 the limits after construction: 10, 1e-6, 1e-6, 1e-7, 0, 1e-3
DefaultLimits ==
    [BiasLimit |-> PyInt(10),
     XScannerLimit |-> Float64(0, 1003, 407485, 11922829),
     YScannerLimit |-> Float64(0, 1003, 407485, 11922829),
     ZScannerLimit |-> Float64(0, 999, 5685140, 448573256),
     LowerSetpointLimit |-> PyInt(0),
     UpperSetpointLimit |-> Float64(0, 1013, 201326, 317827580)]

\* values the caller assigns to a limit attribute: 10, 0, -1, 0.5, 1e-7 (100e-9), 2^-20
LimitValues ==
    {PyInt(10), PyInt(0), PyInt(-1), PyFloat(0, 1, -1),
     Float64(0, 999, 5685140, 448573256), PyFloat(0, 1, -20)}

\* values the setters are called with: floats 0.0, 0.5, 10.0, 1e-7 and its two
\* neighbours, -1e-7, 1e-6, 1e-3, 2^-20, inf and a NaN; ints 10, 11, -11 and 0;
\* the texts '10', '11', '-11', '100n', '.' and '4Q'
SetterArgs ==
    {PyFloat(0, 0, 0), PyFloat(0, 1, -1), PyFloat(0, 5, 1),
     Float64(0, 999, 5685140, 448573256), Float64(0, 999, 5685140, 448573257),
     Float64(0, 999, 5685140, 448573255), Float64(1, 999, 5685140, 448573256),
     Float64(0, 1003, 407485, 11922829), Float64(0, 1013, 201326, 317827580),
     PyFloat(0, 1, -20), Float64(0, 2047, 0, 0), Float64(0, 2047, 4194304, 0),
     PyInt(10), PyInt(11), PyInt(-11), PyInt(0),
     PyStr(<<49, 48>>), PyStr(<<49, 49>>), PyStr(<<45, 49, 49>>),
     PyStr(<<49, 48, 48, 110>>), PyStr(<<46>>), PyStr(<<52, 81>>)}

\* the calls of the setters: one value each, for TipXYSet X, Y and wait = 1
SetterCalls ==
    {[setter |-> w, args |-> <<x>>] : w \in Setters \ {"TipXYSet"}, x \in SetterArgs}
        \cup {[setter |-> "TipXYSet", args |-> <<x, y, PyInt(1)>>] : x \in SetterArgs, y \in SetterArgs}

SetInit ==
    /\ setPhase = "config"
    /\ limits = DefaultLimits
    /\ setCall = NoSetCall
    /\ setOutcome = NoSetOutcome
    /\ EncIdle
    /\ DecIdle
    /\ NetIdle
    /\ WrapIdle
    /\ ConvIdle
    /\ RtIdle

\* the caller assigns a limit attribute (as atom_tracking_script.py:64-69 does)
AssignLimit ==
    /\ setPhase = "config"
    /\ Cardinality({a \in DOMAIN limits : limits[a] # DefaultLimits[a]}) < MaxAssigned
    /\ \E a \in DOMAIN limits, x \in LimitValues : limits' = [limits EXCEPT ![a] = x]
    /\ UNCHANGED <<setPhase, setCall, setOutcome, notSet>>

\* the caller calls a setter
CallSetter ==
    /\ setPhase = "config"
    /\ \E c \in SetterCalls :
        /\ setCall' = c
        /\ setOutcome' = SetterRequest(limits, c)
    /\ setPhase' = "done"
    /\ UNCHANGED <<limits, notSet>>

SetNext == AssignLimit \/ CallSetter

SpecSet == SetInit /\ [][SetNext]_vars

\* ------------------------------------------------- encoder properties
NameBytes == Utf8Encode(command_name.v)
Encoded == encPhase = "done" /\ message.err = "none"
Balanced == Len(vargs) % 2 = 0
NumPairs == Len(vargs) \div 2
TagAt(i) == vargs[(2 * i) - 1]
ValueAt(i) == vargs[2 * i]
IsArrayTag(tag) == tag[1] = "1DArr"
ScalarTags == {<<"int">>, <<"uint16">>, <<"uint32">>, <<"float32">>, <<"float64">>, <<"string">>}
InRegistry(tag) == tag \in ScalarTags \/ (Len(tag) = 2 /\ tag[1] = "1DArr" /\ <<tag[2]>> \in ScalarTags)

\* the body size and the body that construct_command has accumulated when it calls construct_header
AccumulatedSize == EncLoop(EncStart, vargs, 0).body_size
AccumulatedBody == EncLoop(EncStart, vargs, 0).body

\* C3: for a name of at most 32 bytes, an encoded message starts with a header of exactly
\* 40 bytes: the name, zero bytes up to offset 32, the body length as a big-endian signed
\* 32-bit integer, the response flag 0x0001 or 0x0000, two zero bytes; the body follows.
C3_HeaderLayout ==
    (Encoded /\ Len(NameBytes) <= 32) =>
        LET m == message.bytes
        IN  /\ Len(m) = 40 + Len(AccumulatedBody)
            /\ SubSeq(m, 1, Len(NameBytes)) = NameBytes
            /\ \A i \in (Len(NameBytes) + 1)..32 : m[i] = 0
            /\ from_binary(<<"int">>, SubSeq(m, 33, 36)) = Val(PyInt(AccumulatedSize))
            /\ SubSeq(m, 37, 38) \in {<<0, 1>>, <<0, 0>>}
            /\ SubSeq(m, 39, 40) = <<0, 0>>
            /\ SubSeq(m, 41, Len(m)) = AccumulatedBody

\* a message with a body was built for the 8-byte name 'Bias.Set'
C3_Witness == Encoded /\ command_name = NameBiasSet /\ AccumulatedSize > 0

\* the wire bytes of one argument as the specification describes them
RECURSIVE ExpectedItems(_, _)
ExpectedItems(dt, items) ==
    IF items = <<>> THEN <<>>
    ELSE (IF dt = <<"string">>
          THEN PackInt32(Len(Utf8Encode(Head(items).v))) \o Utf8Encode(Head(items).v)
          ELSE to_binary(dt, Head(items)).bytes)
         \o ExpectedItems(dt, Tail(items))

ExpectedArg(tag, value) ==
    IF IsArrayTag(tag) THEN ExpectedItems(<<tag[2]>>, value.v)
    ELSE IF tag = <<"string">> THEN Utf8Encode(value.v)
    ELSE to_binary(tag, value).bytes

RECURSIVE ExpectedBody(_)
ExpectedBody(i) == IF i = 0 THEN <<>> ELSE ExpectedBody(i - 1) \o ExpectedArg(TagAt(i), ValueAt(i))

\* C4: in every message construct_command returns (name of at most 32 bytes), the header's
\* body-length field equals the number of bytes after the header, and the body is the
\* concatenation of the arguments' encoded bytes in argument order.
C4_BodyLengthIsBodySize ==
    (Encoded /\ Len(NameBytes) <= 32) =>
        LET m == message.bytes
        IN  /\ from_binary(<<"int">>, SubSeq(m, 33, 36)) = Val(PyInt(Len(m) - 40))
            /\ SubSeq(m, 41, Len(m)) = ExpectedBody(NumPairs)

\* the declared length in force at pair i: the nearest int-valued argument before it (-1: none)
RECURSIVE DeclaredLength(_)
DeclaredLength(i) ==
    IF i <= 1 THEN -1
    ELSE IF ValueAt(i - 1).t = "int" THEN ValueAt(i - 1).v
    ELSE DeclaredLength(i - 1)

\* C5: an array argument whose declared length differs from its number of elements makes
\* construct_command fail with the length-mismatch error, wherever the array stands and
\* whatever value precedes its tag (all tags being registered ones).
C5_ArrayLengthEnforced ==
    (encPhase = "done" /\ Balanced /\ \A i \in 1..NumPairs : InRegistry(TagAt(i))) =>
        \A i \in 1..NumPairs :
            (IsArrayTag(TagAt(i)) /\ DeclaredLength(i) >= 0 /\ DeclaredLength(i) # Len(ValueAt(i).v))
                => message.err = "LengthMismatch"

\* C6: a scalar 'string' argument is encoded only if the argument just before it is an int
\* equal to the string's UTF-8 byte length, and then as exactly those bytes; any mismatch,
\* also for a string that is the first argument, fails with the length-mismatch error.
C6_StringLengthEnforced ==
    (encPhase = "done" /\ Balanced /\ \A i \in 1..NumPairs : InRegistry(TagAt(i))) =>
        /\ \A i \in 1..NumPairs :
               (/\ TagAt(i) = <<"string">>
                /\ ~(i > 1 /\ ValueAt(i - 1).t = "int"
                           /\ ValueAt(i - 1).v = Len(Utf8Encode(ValueAt(i).v))))
                   => message.err = "LengthMismatch"
        /\ (Encoded /\ \E i \in 1..NumPairs : TagAt(i) = <<"string">>)
               => AccumulatedBody = ExpectedBody(NumPairs)

\* C7: a command name longer than 32 bytes makes construct_command fail with the
\* name-too-long error; no message is produced for it.
C7_NameTooLongRejected ==
    (encPhase = "done" /\ Balanced /\ Len(NameBytes) > 32) => message.err = "NameTooLong"

\* C8: an argument list with a type tag that is not in the registry fails with the
\* unknown-type error (nanonisException 'Unknown Data Type') and with no other failure.
C8_UnknownTypeRejected ==
    (encPhase = "done" /\ Balanced /\ \E i \in 1..NumPairs : ~InRegistry(TagAt(i)))
        => message.err = "UnknownType"

\* C23: every request that send() writes to the socket, the message that
\* construct_command returned (nanonis_tcp.py:253, 238), has the response flag 0x0001
\* in bytes 36..37 of its header: no request with the flag 0x0000 is written
ResponseFlag(m) == SubSeq(m, 37, 38)

C23_ResponseFlagAlwaysOn ==
    Encoded => (Len(message.bytes) >= 40 /\ ResponseFlag(message.bytes) = <<0, 1>>)

\* ------------------------------------------------- decoder properties
NumericTags == {<<"int">>, <<"uint16">>, <<"uint32">>, <<"float32">>, <<"float64">>}

\* the bytes that scalar numeric fields with the given tags take
RECURSIVE FieldsWidth(_)
FieldsWidth(tags) == IF tags = <<>> THEN 0 ELSE datasize_dict[Head(tags)[1]] + FieldsWidth(Tail(tags))

\* C9: (for scalar numeric expected fields) parse_response fails with the body-size-mismatch
\* error whenever the bytes taken by the fields and the error record differ from body_size,
\* for a body that is too short as for one with trailing bytes, and it returns a result only
\* with the final cursor at body_size.
C9_MismatchIsBodySizeError ==
    (decPhase = "done" /\ \A i \in 1..Len(expected) : expected[i] \in NumericTags) =>
        LET need == FieldsWidth(expected) + 8
            size == parsedResult.size
            taken == IF size.t = "int" /\ size.v > 0 THEN need + size.v ELSE need
        IN  /\ Len(response.body) < need => parsedResult.err = "BodySizeMismatch"
            /\ (Len(response.body) >= need /\ taken # response.body_size.v)
                   => parsedResult.err = "BodySizeMismatch"
            /\ parsedResult.err = "none" => parsedResult.bytecursor = response.body_size.v

\* C10: once the fields are read, the status is the next 4 bytes as uint32 and the size the
\* following 4 as int32; the description is there exactly when size > 0, it is the next size
\* bytes and moves the cursor by size; for size <= 0 there is none and the cursor stays.
C10_ErrorRecord ==
    (decPhase = "done" /\ parsedResult.err \in {"none", "BodySizeMismatch"}) =>
        LET c == parsedResult.fieldsEnd
            size == parsedResult.size.v
            body == response.body
        IN  /\ Val(parsedResult.status) = from_binary(<<"uint32">>, SubSeq(body, c + 1, c + 4))
            /\ Val(parsedResult.size) = from_binary(<<"int">>, SubSeq(body, c + 5, c + 8))
            /\ parsedResult.hasDescription <=> size > 0
            /\ (size > 0 /\ Len(body) >= (c + 8) + size) =>
                   /\ Val(parsedResult.description) = from_binary(<<"string">>, SubSeq(body, c + 9, (c + 8) + size))
                   /\ parsedResult.bytecursor = (c + 8) + size
            /\ size <= 0 => parsedResult.bytecursor = c + 8

\* the tags of scalar fields: the numeric types and 'string'
FieldTags == NumericTags \cup {<<"string">>}

\* the bytes the field at index i (from 0) takes: its registered size, or for a scalar
\* 'string' the count held by the integer field parsed before it
FieldWidthAt(i) ==
    IF expected[i + 1] # <<"string">> THEN datasize_dict[expected[i + 1][1]]
    ELSE IF (i - 1) \in DOMAIN parsedResult.parsed /\ parsedResult.parsed[i - 1].t = "int"
         THEN parsedResult.parsed[i - 1].v
    ELSE 0

\* the cursor before the field at index i when every field before it took its bytes
RECURSIVE FieldStart(_)
FieldStart(i) == IF i = 0 THEN 0 ELSE FieldStart(i - 1) + FieldWidthAt(i - 1)

\* C11: a successful parse_response of scalar expected tags (numbers and strings, each
\* string after an integer field holding its byte count) has one entry per tag, stored
\* under the tag's index and decoded from the field's own bytes, and the cursor after the
\* fields has advanced by the bytes of all of them.
C11_EveryFieldConsumedAndStored ==
    (/\ decPhase = "done"
     /\ parsedResult.err = "none"
     /\ \A i \in 1..Len(expected) : expected[i] \in FieldTags
     /\ \A i \in 1..Len(expected) :
            expected[i] = <<"string">> => (i >= 2 /\ expected[i - 1] = <<"int">>)) =>
        /\ DOMAIN parsedResult.parsed = 0..(Len(expected) - 1)
        /\ \A i \in 0..(Len(expected) - 1) :
               i \in DOMAIN parsedResult.parsed =>
                   Val(parsedResult.parsed[i]) =
                       from_binary(expected[i + 1],
                                   PySlice(response.body, FieldStart(i), FieldStart(i) + FieldWidthAt(i)))
        /\ parsedResult.fieldsEnd = FieldStart(Len(expected))

\* the indexes (from 0) below i of the parsed fields whose value is an integer
IntFieldsBefore(i) ==
    {j \in 0..(i - 1) : j \in DOMAIN parsedResult.parsed /\ IsPyInt(parsedResult.parsed[j])}

\* the largest element of a non-empty set of integers
MaxOf(S) == CHOOSE x \in S : \A y \in S : y <= x

\* C12: (expected tags without scalar strings) an array that parse_response decoded has as
\* many elements as the nearest integer-valued field parsed before it says; and when the
\* loop reaches an array tag that no integer-valued field precedes, parse_response fails
\* with the missing-array-length error.
C12_ArrayLengthFromNearestInt ==
    (decPhase = "done" /\ \A i \in 1..Len(expected) : expected[i] # <<"string">>) =>
        \A i \in 0..(Len(expected) - 1) :
            expected[i + 1][1] = "1DArr" =>
                /\ (i \in DOMAIN parsedResult.parsed /\ IntFieldsBefore(i) # {}) =>
                       parsedResult.parsed[MaxOf(IntFieldsBefore(i))] = PyInt(Len(parsedResult.parsed[i].v))
                /\ (/\ \A j \in 0..(i - 1) : j \in DOMAIN parsedResult.parsed
                    /\ IntFieldsBefore(i) = {}) =>
                       parsedResult.err = "MissingArrayLength"

\* ------------------------------------------------- wrapper properties
\* the fields the wrapper expects are all there: the device answered in the wrapper's format
WellFormedAnswer ==
    Len(answer.body) = (4 * (IF wrapper = "BiasGet" THEN 1 ELSE IF wrapper = "BiasSet" THEN 0 ELSE 5))
                           + 8 + Len(device.description)

\* C13: when the device's response carries a non-zero error status, the wrapper that
\* received it raises a device error, which carries the decoded description when the
\* response has one; it does not return as a success. For every wrapper, setters and getters.
C13_DeviceErrorSurfaced ==
    (wrapPhase = "done" /\ WellFormedAnswer /\ device.status # 0) =>
        /\ outcome.err = "nanonisException"
        /\ device.hasDescription => outcome.description = PyStr(device.description)

\* ------------------------------------------------- convert properties
\* the text as the grammar reads it: an optional '-', the run of digits and '.', the rest
GrammarStart(s) == IF Len(s) > 0 /\ s[1] = 45 THEN 2 ELSE 1
GrammarBody(s) == SubSeq(s, GrammarStart(s), Span(s, GrammarStart(s), "number") - 1)
GrammarSuffix(s) == SubSeq(s, Span(s, GrammarStart(s), "number"), Len(s))
WellFormedBody(b) == CountChar(b, 46) <= 1 /\ Len(b) - CountChar(b, 46) >= 1
AllLetters(s) == \A i \in 1..Len(s) : IsLetterChar(s[i])

\* C19: convert returns a value exactly for the texts "optional '-', one or more digits
\* with at most one '.', a suffix from the prefix set", and the value is sign times
\* number times multiplier; a text whose numeric body is malformed fails with the
\* not-a-correctly-formatted-number error, a text with a well-formed number and an
\* unrecognized suffix of letters fails with the prefix-not-recognized error, and
\* there is no other kind of failure
C19_ConvertGrammar ==
    convPhase = "done" =>
        LET body == GrammarBody(convInput)
            suffix == GrammarSuffix(convInput)
        IN  /\ (converted.err = "none") <=> (WellFormedBody(body) /\ suffix \in DOMAIN si_prefix)
            /\ (WellFormedBody(body) /\ suffix \in DOMAIN si_prefix) =>
                   converted.val = [sign |-> IF GrammarStart(convInput) = 2 THEN -1 ELSE 1,
                                    number |-> [digits |-> DigitsValue(body, 0),
                                                places |-> FractionDigits(body)],
                                    multiplier |-> si_prefix[suffix]]
            /\ ~WellFormedBody(body) =>
                   converted.err = "Malformed number: Not a correctly formatted number"
            /\ (WellFormedBody(body) /\ suffix \notin DOMAIN si_prefix /\ AllLetters(suffix)) =>
                   converted.err = "Malformed number: SI prefix not recognized"
            /\ converted.err \in {"none", "Malformed number: Not a correctly formatted number",
                                  "Malformed number: SI prefix not recognized"}

\* ------------------------------------------------- round trip properties
\* the number the bytes b spell with their first byte as the most significant digit
RECURSIVE MostSignificantFirst(_, _)
MostSignificantFirst(b, acc) ==
    IF b = <<>> THEN acc ELSE MostSignificantFirst(Tail(b), (256 * acc) + Head(b))

\* C20: for every scalar type tag and every value of that type, to_binary gives exactly
\* the registered number of bytes, most significant byte first (the digits of an
\* integer; sign and exponent of a float in the first bytes), and from_binary of these
\* bytes is the value again, bit for bit
C20_RoundTrip ==
    rtPhase = "done" =>
        /\ roundTrip.packed.err = "none"
        /\ Len(roundTrip.packed.bytes) = datasize_dict[rtTag[1]]
        /\ roundTrip.unpacked = Val(rtValue)
        /\ (rtValue.t = "int" /\ rtValue.v >= 0) =>
               MostSignificantFirst(roundTrip.packed.bytes, 0) = rtValue.v
        /\ (rtValue.t = "int" /\ rtValue.v < 0) =>
               /\ roundTrip.packed.bytes[1] >= 128
               /\ MostSignificantFirst(<<roundTrip.packed.bytes[1] - 128>>
                                           \o Tail(roundTrip.packed.bytes), 0)
                      = (rtValue.v + 2147483647) + 1
        /\ rtValue.t = "bigint" => roundTrip.packed.bytes = rtValue.v
        /\ rtValue.t = "float" =>
               /\ roundTrip.packed.bytes[1] \div 128 = rtValue.v[1]
               /\ (rtTag = <<"float64">>) =>
                      ((roundTrip.packed.bytes[1] % 128) * 16) + (roundTrip.packed.bytes[2] \div 16)
                          = rtValue.v[2]
               /\ (rtTag = <<"float64">>) => roundTrip.packed.bytes[8] = rtValue.v[4] % 256
               /\ (rtTag = <<"float32">> /\ rtValue.v[2] >= 897 /\ rtValue.v[2] <= 1150) =>
                      /\ ((roundTrip.packed.bytes[1] % 128) * 2) + (roundTrip.packed.bytes[2] \div 128)
                             = rtValue.v[2] - 896
                      /\ roundTrip.packed.bytes[4] = rtValue.v[3] % 256

\* Bias.Set's value: float32 1.5 is sent as the four bytes 3F C0 00 00 and read back as 1.5
C20_Witness ==
    /\ rtPhase = "done"
    /\ rtTag = <<"float32">>
    /\ rtValue = PyFloat(0, 3, -1)
    /\ roundTrip.packed.bytes = <<63, 192, 0, 0>>
    /\ roundTrip.unpacked = Val(PyFloat(0, 3, -1))

\* -------------------------------------------------- setter properties

\* the messages of the nanonisException a setter raises for a value outside its limit
OutOfBounds ==
    {"Bias out of bounds", "X out of bounds", "Y out of bounds", "Z out of bounds",
     "Setpoint out of bounds"}

\* the errors that are a nanonisException (the others are Python's own exceptions)
NanonisExceptions ==
    OutOfBounds \cup {"Malformed number: Not a correctly formatted number",
                      "Malformed number: SI prefix not recognized",
                      "Unbalanced"}

\* the positions of the arguments a setter checks against a limit
CheckedArgs(setter) == IF setter = "TipXYSet" THEN {1, 2} ELSE {1}

\* the limit attribute in force for argument i of a setter, as <<lowest, highest>>
LimitRange(self, setter, i) ==
    IF setter = "BiasSet" THEN <<PyNeg(self.BiasLimit), self.BiasLimit>>
    ELSE IF setter = "TipXYSet" /\ i = 1 THEN <<PyNeg(self.XScannerLimit), self.XScannerLimit>>
    ELSE IF setter = "TipXYSet" THEN <<PyNeg(self.YScannerLimit), self.YScannerLimit>>
    ELSE IF setter = "SetpointSet" THEN <<self.LowerSetpointLimit, self.UpperSetpointLimit>>
    ELSE <<PyNeg(self.ZScannerLimit), self.ZScannerLimit>>

WithinLimit(self, setter, i, x) ==
    Within(LimitRange(self, setter, i)[1], x, LimitRange(self, setter, i)[2])

\* the call c requests a value that lies outside its limit
RequestsOutside(self, c) ==
    \E i \in CheckedArgs(c.setter) :
        /\ ArgValue(c.args[i]).err = "none"
        /\ ~WithinLimit(self, c.setter, i, ArgValue(c.args[i]).val)

\* the value that the written message m carries for argument i of a setter: the
\* body starts after the 40 bytes of the header, float64 fields for TipXYSet and
\* one float32 field for the others
CarriedWidth(setter) == IF setter = "TipXYSet" THEN 8 ELSE 4
CarriedTag(setter) == IF setter = "TipXYSet" THEN <<"float64">> ELSE <<"float32">>
CarriedValue(setter, m, i) ==
    from_binary(CarriedTag(setter),
                SubSeq(m, 40 + (i - 1) * CarriedWidth(setter) + 1,
                          40 + i * CarriedWidth(setter))).val

\* a call outside the limits raises nanonisException and writes nothing
OutsideIsRefused ==
    (setPhase = "done" /\ RequestsOutside(limits, setCall))
        => (setOutcome.err \in NanonisExceptions /\ setOutcome.sent = <<>>)

\* every written message carries values within the limits
WrittenIsWithin ==
    setPhase = "done" =>
        \A k \in 1..Len(setOutcome.sent) : \A i \in CheckedArgs(setCall.setter) :
            WithinLimit(limits, setCall.setter, i,
                        CarriedValue(setCall.setter, setOutcome.sent[k], i))

\* C21: the safety limits of BiasSet, TipXYSet, TipZSet, ZCtrlTiplLiftSet and
\* SetpointSet are enforced before transmission: a call whose requested value
\* (for TipXYSet, X or Y) lies outside the limit attribute in force raises
\* nanonisException and writes no message to the socket, and every message that
\* is written carries values within the limits.
C21_LimitsEnforcedBeforeTransmission == OutsideIsRefused /\ WrittenIsWithin

\* ------------------------------------------------ transport properties
\* thread t has entered the part of send() between lock.acquire() and lock.release()
InTransmit(t) == pc[t] \in {"transmit", "recv", "unpack"}

\* C1: in every interleaving of send() calls by several threads, a thread holds the lock
\* from before it writes its request until after its recv has returned, and meanwhile
\* every other thread is outside send() or waiting in lock.acquire(): no other caller
\* writes to or receives from the socket between one caller's write and its receive.
C1_LockHeldAcrossTransmit ==
    \A t \in Threads :
        InTransmit(t) =>
            /\ lock = t
            /\ \A u \in Threads \ {t} : pc[u] \in {"idle", "acquire"}

\* one thread has written its request and waits in recv while another waits for the lock
C1_Witness ==
    \E t \in Threads : \E u \in Threads \ {t} :
        pc[t] = "recv" /\ lock = t /\ pc[u] = "acquire"

\* C14: when send() has received the bytes r, an envelope it returns has body_size equal to
\* len(body), with body all of r after the 40-byte header; and when r has a header (a name
\* that decodes, and a size) that announces another size than the bytes after it, send()
\* raises the body-size error (a nanonisException) and returns no envelope.
C14_EnvelopeIntegrity ==
    [][\A t \in Threads :
          (pc[t] = "unpack" /\ pc'[t] = "idle") =>
              /\ result'[t].err = "none" =>
                     /\ result'[t].envelope.body = PySlice(Bytes(received[t]), 40, StreamLen(received[t]))
                     /\ result'[t].envelope.body_size = PyInt(Len(result'[t].envelope.body))
              /\ (/\ StreamLen(received[t]) >= 40
                  /\ from_binary(<<"string">>, PySlice(Bytes(received[t]), 0, 32)).err = "none"
                  /\ from_binary(<<"int">>, PySlice(Bytes(received[t]), 32, 36)).val
                         # PyInt(StreamLen(received[t]) - 40)) =>
                     /\ result'[t].err = "nanonisException"
                     /\ result'[t].envelope = NoEnvelope]_vars

\* C15: when encoding the request fails (unknown type tag, unbalanced or mismatched
\* arguments) nothing is written to the connection and nothing is read from it, the
\* send() call raises that encoding error, and the lock is free again afterwards
EncodingOf(t) == construct_command(call[t].command_name, call[t].vargs)

C16_SocketReleasedOnce ==
    /\ releases <= 1
    /\ (sock = "closed") <=> (releases = 1)
    /\ process = "exited" => (sock = "closed" /\ releases = 1)

\* the process has terminated after an explicit close(): close() ran twice or more
C16_Witness ==
    /\ process = "exited"
    /\ closeCalls >= 2
    /\ releases = 1

\* C17: no retry and no reconnection. A step of a thread's send() call calls sendall
\* at most once and recv at most once in the whole call; a sendall or recv on the
\* closed socket ends the call with that fault raised to the caller and the lock free;
\* a closed socket is never open again; and a request is put on the wire only by the
\* one sendall of its own call, never again later
SocketFault(t) ==
    \/ pc[t] = "transmit" /\ EncodingOf(t).err = "none" /\ sock # "open"
    \/ pc[t] = "recv" /\ recvs'[t] > recvs[t] /\ received' = received

C17_NoRetryNoReconnect ==
    [][/\ sock = "closed" => sock' = "closed"
       /\ \A t \in Threads :
            /\ sendalls'[t] <= 1
            /\ recvs'[t] <= 1
            /\ (pc[t] # pc'[t] /\ process' = "running" /\ SocketFault(t)) =>
                   /\ pc'[t] = "idle"
                   /\ result'[t].err = "OSError"
                   /\ result'[t].id = call[t].id
                   /\ requests' = requests
                   /\ lock' = Unlocked
       /\ Len(requests') > Len(requests) =>
              \E t \in Threads :
                  /\ pc[t] = "transmit"
                  /\ sendalls[t] = 0
                  /\ requests' = Append(requests, [id |-> call[t].id,
                                                   command_name |-> call[t].command_name])]_vars

\* send() after close(): the call has ended with the socket's fault, nothing was sent
C17_Witness ==
    \E t \in Threads :
        /\ pc[t] = "idle"
        /\ result[t].err = "OSError"
        /\ sendalls[t] = 1
        /\ recvs[t] = 0
        /\ sock = "closed"
        /\ requests = <<>>

\* C18: a send() call that has transmitted its request holds the lock while it waits in
\* recv, and leaves recv only when bytes have arrived or the socket is closed (there is
\* no timeout); under fair scheduling, with every request answered, every started
\* send() call returns or raises and every thread waiting for the lock acquires it
\* (unless the process terminates first)
InSend(t) == pc[t] \in {"acquire", "transmit", "recv", "unpack"}

C18_BlocksUntilAnsweredThenReturns ==
    /\ [][\A t \in Threads :
             pc[t] = "recv" =>
                 /\ lock = t
                 /\ (pc'[t] # "recv" /\ process' = "running") =>
                        (StreamLen(stream) > 0 \/ sock = "closed")]_vars
    /\ \A t \in Threads :
         /\ InSend(t) ~> (pc[t] = "idle" \/ process = "exited")
         /\ (pc[t] = "acquire") ~> (lock = t \/ process = "exited")

\* a thread waits for the lock while the other waits in recv for its response
C18_Witness ==
    \E t, u \in Threads :
        /\ pc[t] = "recv"
        /\ lock = t
        /\ stream = <<>>
        /\ sock = "open"
        /\ pc[u] = "acquire"

\* C22: the lock is released on every exit path of send(): when a send() call returns
\* or raises (encoding error, socket error on write or receive, body-size mismatch,
\* undecodable header), the lock it held is free afterwards; the lock is held only by
\* a thread whose send() call is in progress, and is free when no call is in progress
HoldsLock(t) == pc[t] \in {"transmit", "recv", "unpack"}

C22_LockReleasedOnEveryExit ==
    /\ [](/\ \A t \in Threads : lock = t => HoldsLock(t)
          /\ lock # Unlocked => \E t \in Threads : lock = t)
    /\ [][\A t \in Threads :
             (InSend(t) /\ pc'[t] = "idle") =>
                 /\ result'[t].id = call[t].id
                 /\ result'[t].err # "pending"
                 /\ lock' # t
                 /\ lock = t => lock' = Unlocked]_vars

\* a call has raised, and a later call of the other thread has acquired the lock
C22_Witness ==
    \E t, u \in Threads :
        /\ pc[t] = "idle"
        /\ result[t].err \notin {"none", "pending"}
        /\ lock = u
        /\ call[u].id > result[t].id

\* the envelope of the peer's response to a request with this command name
OwnEnvelope(cmd_name) ==
    [command_name |-> PyStr(cmd_name.v \o Zeros(32 - Len(cmd_name.v))),
     body_size |-> PyInt(Len(PeerBody(cmd_name))),
     body |-> PeerBody(cmd_name)]

\* C2: whatever earlier calls did and however the peer's bytes are cut into recv results,
\* a send() call that returns, returns the command name, body size and body of the
\* response to its own request, made of bytes of that response only.
C2_ResponseIsOwn ==
    \A t \in Threads :
        (pc[t] = "idle" /\ result[t].err = "none") =>
            /\ result[t].from = {result[t].id}
            /\ result[t].envelope = OwnEnvelope(call[t].command_name)

====
